---- MODULE Spec2Model ----
(***************************************************************************)
(* Backtesting core of profitable-expert-advisor:                          *)
(*   - the MT5 position/account ledger (backtesting/MT5/base_strategy.py), *)
(*   - the MT5 bar replay loop        (backtesting/MT5/backtest_engine.py),*)
(*   - the Polymarket ledger's equity/drawdown bookkeeping                 *)
(*                                   (polymarket/strategies/base_strategy.py)*)
(*   - the Polymarket replay loop    (polymarket/backtesting/engine.py),   *)
(*   - the MT5 engine's indicator lookup (get_indicator_value),            *)
(*   - the bar buffer of the ONNX strategy                                 *)
(*                                   (backtesting/MT5/onnx_backtest_strategy.py)*)
(*                                                                         *)
(* Numbers.  The program computes in Python floats (IEEE-754 binary64):    *)
(* every arithmetic result is rounded to the nearest value with a 53-bit   *)
(* significand, ties to even.  The model keeps that rounding (Fl, FlRat)   *)
(* and shortens the significand to MantBits bits, so that the rounding     *)
(* cases lie within the integers TLC can enumerate.  Each quantity is an   *)
(* integer count of its unit:                                              *)
(*   price, sl, tp        1e-4  (one pip; `* 10000` in the code converts   *)
(*                               a price difference into pips)             *)
(*   volume               0.01 lot                                         *)
(*   pips                 1 pip                                            *)
(*   profit, balance,     0.1 account currency                             *)
(*   equity, totals             (pips * volume[lots] * 10)                 *)
(*   max_drawdown         1/DrawdownScale                                  *)
(* None is encoded as the record None.                                     *)
(***************************************************************************)
EXTENDS Integers, Sequences, FiniteSets, TLC

VARIABLES
    mode,             \* which driver is modelled: "ledger" | "run" | "pm" |
                      \* "pmrun" | "indicator" | "onnx" | "rules" |
                      \* "sweep"
    symbol,           \* BaseStrategy.symbol, a sequence of characters
    initial_balance,  \* BaseStrategy.initial_balance
    current_balance,  \* BaseStrategy.current_balance
    equity,           \* BaseStrategy.equity
    position,         \* BaseStrategy.position: None or a position record
    closed_trades,    \* BaseStrategy.closed_trades
    max_drawdown,     \* BaseStrategy.max_drawdown
    peak_equity,      \* BaseStrategy.peak_equity
    total_profit,     \* BaseStrategy.total_profit
    total_loss,       \* BaseStrategy.total_loss
    winning_trades,   \* BaseStrategy.winning_trades
    losing_trades,    \* BaseStrategy.losing_trades
    op,               \* the last ledger method called
    ret,              \* value returned by the last ledger call
    levels_hit,       \* history: the levels the last stop/take-profit check
                      \* found reached: "none" | "sl" | "tp" | "both"
    pc,               \* BacktestEngine.run: the statement to execute next
    nbars,            \* BacktestEngine.run: len(rates), 0 when rates is None
    i,                \* BacktestEngine.run: index of the bar in the loop
    rate,             \* BacktestEngine.run: close of rates[i]
    report,           \* BacktestEngine.run: the dictionary returned, or None
    calls,            \* ledger calls made so far by the caller / the strategy
    bar_events,       \* history: what run has done for the current bar
    pm_initial_balance,  \* polymarket BaseStrategy.initial_balance
    pm_current_balance,  \* polymarket BaseStrategy.current_balance
    pm_equity,           \* polymarket BaseStrategy.equity
    pm_positions,        \* polymarket BaseStrategy.positions: token -> Position
    pm_closed_positions, \* polymarket BaseStrategy.closed_positions
    pm_total_trades,     \* polymarket BaseStrategy.total_trades
    pm_winning_trades,   \* polymarket BaseStrategy.winning_trades
    pm_losing_trades,    \* polymarket BaseStrategy.losing_trades
    pm_total_profit,     \* polymarket BaseStrategy.total_profit
    pm_total_loss,       \* polymarket BaseStrategy.total_loss
    pm_max_drawdown,     \* polymarket BaseStrategy.max_drawdown
    pm_peak_equity,      \* polymarket BaseStrategy.peak_equity
    pm_trades,           \* polymarket BacktestEngine.trades
    pm_pc,               \* polymarket BacktestEngine.run: the next statement
    pm_fetched,          \* history: run called fetch_historical_markets
    pm_markets,          \* polymarket run: the Yes price of every market
    pm_market,           \* polymarket run: index in `for ... in markets`
    pm_days,             \* days from start_date to end_date, both included
    pm_day,              \* polymarket run: day_count of the current day
    pm_equity_curve,     \* polymarket BacktestEngine.equity_curve
    pm_report,           \* polymarket run: the dictionary returned, or None
    indicator_series,    \* indicator_data[name]: None or a series
    query_time,          \* the `time` get_indicator_value is called with
    indicator_value,     \* what get_indicator_value returned, once called
    historical_bars,     \* ONNXBacktestStrategy.historical_bars
    lookback,            \* ONNXBacktestStrategy.lookback
    bars_delivered,      \* history: on_bar calls made on the ONNX strategy
    predicted,           \* history: the last on_bar called predict_price
    price_change_pct,    \* history: on_bar's price_change_pct, once computed
    prediction_threshold,  \* ONNXBacktestStrategy.prediction_threshold
    onnx_min_confidence, \* ONNXBacktestStrategy.min_confidence
    strategy,            \* the class of the rule-based strategy that is run
    rule_bars,           \* the bars of a rule-based run, with their indicator
    prev_rsi,            \* RSIScalpingStrategy / RSIReversalStrategy.prev_rsi
    prev_price,          \* EMAStrategy.prev_price
    prev_ema,            \* EMAStrategy.prev_ema
    delivered,           \* history: the last bar on_bar got with its indicator
    total_combinations,  \* grid_search: len(combinations); random_search: n_iter
    combo,               \* grid_search / random_search: the loop index i
    results,             \* grid_search / random_search: results
    tested,              \* history: the combinations the loop has reached
    returned,            \* the rows grid_search / random_search returned
    backtest_running,    \* the dashboard's global backtest_running
    handler,             \* run_backtest: where every request stands
    thread,              \* run_backtest_thread: the thread of every request
    pm_signal            \* history: the signal of the last execute_signal

ledger == <<symbol, initial_balance, current_balance, equity, position,
            closed_trades, max_drawdown, peak_equity, total_profit,
            total_loss, winning_trades, losing_trades>>

engine == <<pc, nbars, i, rate, bar_events, report>>

\* the last call and its result
last == <<op, ret, levels_hit>>

\* the Polymarket strategy's ledger and the trades of its engine
polymarket == <<pm_initial_balance, pm_current_balance, pm_equity,
                pm_positions, pm_closed_positions, pm_total_trades,
                pm_winning_trades, pm_losing_trades, pm_total_profit,
                pm_total_loss, pm_max_drawdown, pm_peak_equity, pm_trades>>

\* the Polymarket engine's run
pmengine == <<pm_pc, pm_fetched, pm_markets, pm_market, pm_days, pm_day,
              pm_equity_curve, pm_report>>

\* one call of BacktestEngine.get_indicator_value
indicator == <<indicator_series, query_time, indicator_value>>

\* the bar buffer of the ONNX strategy
onnx == <<historical_bars, lookback, bars_delivered, predicted,
          price_change_pct, prediction_threshold, onnx_min_confidence>>

\* a run of one of the rule-based example strategies
rules == <<strategy, rule_bars, prev_rsi, prev_price, prev_ema, delivered>>

\* a parameter sweep of ONNXParameterOptimizer
sweep == <<total_combinations, combo, results, tested, returned>>

\* the dashboard's backtest endpoint
dashboard == <<backtest_running, handler, thread>>

\* the drivers added to the ledgers and the engines
extra == <<rules, sweep, dashboard, pm_signal>>

vars == <<mode, ledger, last, calls, engine, polymarket, pmengine,
          indicator, onnx, extra>>

----------------------------------------------------------------------------
(* Bounds of the model *)

MantBits == 13       \* significand bits of the modelled float format
MaxCalls == 4        \* ledger calls made by the ledger's direct caller
MaxStrategyCalls == 2  \* ledger calls made by on_bar over one run
MaxBars == 2         \* bars returned by the bar source
MaxPMCalls == 5      \* calls made by the Polymarket ledger's caller
DrawdownScale == 100000  \* max_drawdown is counted in 1/DrawdownScale

----------------------------------------------------------------------------
(* Float arithmetic *)

RECURSIVE Pow2(_)
Pow2(n) == IF n <= 0 THEN 1 ELSE 2 * Pow2(n - 1)

RECURSIVE BitLen(_)
BitLen(n) == IF n <= 0 THEN 0 ELSE 1 + BitLen(n \div 2)

Abs(x) == IF x < 0 THEN -x ELSE x

\* n/d (n >= 0, d > 0) rounded to the nearest integer, ties to even
RoundHalfEven(n, d) ==
    LET k == n \div d
        r == n % d
    IN  IF 2 * r < d THEN k
        ELSE IF 2 * r > d THEN k + 1
        ELSE IF k % 2 = 0 THEN k ELSE k + 1

\* the float nearest to the rational n/d (d > 0)
FlRat(n, d) ==
    LET a == Abs(n)
        bits == BitLen(a \div d)
        q == IF bits <= MantBits THEN 1 ELSE Pow2(bits - MantBits)
        m == RoundHalfEven(a, d * q) * q
    IN  IF n < 0 THEN -m ELSE m

\* the float nearest to the integer x: the result of one float operation
Fl(x) == FlRat(x, 1)

Min(a, b) == IF a < b THEN a ELSE b
Max(a, b) == IF a > b THEN a ELSE b

----------------------------------------------------------------------------
(* Python values *)

None == [none |-> TRUE]

\* truth value of `self.position.get('sl')`: None and 0.0 are falsy
Truthy(x) == x # None /\ x # [v |-> 0]

\* a float argument that may be None is carried as [v |-> number]
Some(x) == [v |-> x]

\* s[k-1 : k-1+len(sub)] == sub
IsPrefixAt(sub, s, k) ==
    /\ k + Len(sub) - 1 <= Len(s)
    /\ \A j \in 1..Len(sub) : s[k + j - 1] = sub[j]

\* Python `sub in s` on strings
Contains(sub, s) == \E k \in 1..(Len(s) + 1) : IsPrefixAt(sub, s, k)

----------------------------------------------------------------------------
(* Inputs *)

EURUSD == <<"E", "U", "R", "U", "S", "D">>
XAUUSD == <<"X", "A", "U", "U", "S", "D">>
GOLD == <<"G", "O", "L", "D">>

\* (symbol, initial_balance) pairs the constructor is called with
Accounts == { <<EURUSD, 10000>>, <<EURUSD, 10>>, <<XAUUSD, 10>>, <<GOLD, 10>> }

OrderTypes == {"BUY", "SELL"}
Volumes == {0, 10, 20}
Prices == {100, 101}
\* (sl, tp) pairs: unset, 0.0, one level, both levels
LevelPairs ==
    { <<None, None>>, <<Some(0), Some(0)>>,
      <<Some(100), None>>, <<Some(101), None>>,
      <<None, Some(100)>>, <<None, Some(101)>>,
      <<Some(100), Some(101)>>, <<Some(101), Some(100)>> }

----------------------------------------------------------------------------
(* BaseStrategy (MT5): risk-management settings *)

max_lot_size == 10
min_lot_size == 1

ContractSize(sym) ==
    IF Contains(<<"X", "A", "U">>, sym) \/ Contains(GOLD, sym)
    THEN 100 ELSE 100000

\* margin_percent in units of 0.01
MarginPercent(sym) ==
    IF Contains(<<"X", "A", "U">>, sym) \/ Contains(GOLD, sym)
    THEN 2 ELSE 1

\* the clamp without its lower limit
ClampVolume_upper_only(volume) == Min(volume, max_lot_size)

ClampVolume(volume) == Max(min_lot_size, Min(volume, max_lot_size))

\* the largest power of two, up to 16, that divides n.  Dividing a float by
\* a power of two is exact, so the margin test is made on both sides divided
\* by TwoPart of the units, which keeps the products within 32 bits
TwoPart(n) ==
    IF n % 16 = 0 THEN 16
    ELSE IF n % 8 = 0 THEN 8
    ELSE IF n % 4 = 0 THEN 4
    ELSE IF n % 2 = 0 THEN 2
    ELSE 1

\* volume * contract_size: (0.01 lot * contract_size) is a whole number of
\* underlying units
MarginUnits(sym, volume) == Fl((volume * ContractSize(sym)) \div 100)

\* volume * contract_size * price * margin_percent, counted in
\* TwoPart(units) * 1e-6 currency
MarginRequired(sym, volume, price) ==
    LET units == MarginUnits(sym, volume)
    IN  Fl(Fl((units \div TwoPart(units)) * price) * MarginPercent(sym))

\* self.equity * 0.9, in 0.01 currency
MarginLimit(eq) == Fl(eq * 9)

\* margin_required > self.equity * 0.9: the margin is compared with the
\* limit times 10000 / TwoPart(units), the limit in the margin's unit
MarginExceeded(sym, volume, price, eq) ==
    LET c == 10000 \div TwoPart(MarginUnits(sym, volume))
        m == MarginRequired(sym, volume, price)
    IN  \/ m \div c > MarginLimit(eq)
        \/ m \div c = MarginLimit(eq) /\ m % c # 0

----------------------------------------------------------------------------
(* BaseStrategy.open_position *)

\* open_position without the `if self.position is not None` test
open_position_replacing(order_type, volume, price, sl, tp) ==
    /\ op' = "open_position"
    /\ levels_hit' = "none"
    /\ IF MarginExceeded(symbol, ClampVolume(volume), price, equity)
       THEN /\ ret' = "False"
            /\ UNCHANGED ledger
       ELSE /\ position' = [type |-> order_type,
                            volume |-> ClampVolume(volume),
                            open_price |-> price,
                            sl |-> sl,
                            tp |-> tp]
            /\ ret' = "True"
            /\ UNCHANGED <<symbol, initial_balance, current_balance, equity,
                           closed_trades, max_drawdown, peak_equity,
                           total_profit, total_loss, winning_trades,
                           losing_trades>>

\* open_position that records the position before it checks the margin
open_position_recording(order_type, volume, price, sl, tp) ==
    /\ op' = "open_position"
    /\ levels_hit' = "none"
    /\ IF position # None
       THEN /\ ret' = "False"
            /\ UNCHANGED ledger
       ELSE /\ position' = [type |-> order_type,
                            volume |-> ClampVolume(volume),
                            open_price |-> price,
                            sl |-> sl,
                            tp |-> tp]
            /\ ret' = IF MarginExceeded(symbol, ClampVolume(volume), price,
                                        equity)
                      THEN "False" ELSE "True"
            /\ UNCHANGED <<symbol, initial_balance, current_balance, equity,
                           closed_trades, max_drawdown, peak_equity,
                           total_profit, total_loss, winning_trades,
                           losing_trades>>

open_position(order_type, volume, price, sl, tp) ==
    /\ op' = "open_position"
    /\ levels_hit' = "none"
    /\ IF position # None
       THEN /\ ret' = "False"
            /\ UNCHANGED ledger
       ELSE IF MarginExceeded(symbol, ClampVolume(volume), price, equity)
       THEN /\ ret' = "False"
            /\ UNCHANGED ledger
       ELSE /\ position' = [type |-> order_type,
                            volume |-> ClampVolume(volume),
                            open_price |-> price,
                            sl |-> sl,
                            tp |-> tp]
            /\ ret' = "True"
            /\ UNCHANGED <<symbol, initial_balance, current_balance, equity,
                           closed_trades, max_drawdown, peak_equity,
                           total_profit, total_loss, winning_trades,
                           losing_trades>>

----------------------------------------------------------------------------
(* BaseStrategy.close_position *)

\* pips computed as for BUY whatever the side
Pips_buy_only(pos, close_price) == Fl(close_price - pos.open_price)

\* pips = (close_price - open_price) * 10000, sign-flipped for SELL
Pips(pos, close_price) ==
    IF pos.type = "BUY"
    THEN Fl(close_price - pos.open_price)
    ELSE Fl(pos.open_price - close_price)

\* profit = pips * volume * 10
Profit(pos, close_price) == Fl(Pips(pos, close_price) * pos.volume)

TradeResult(pos, close_price) ==
    [type |-> pos.type,
     volume |-> pos.volume,
     open_price |-> pos.open_price,
     close_price |-> close_price,
     profit |-> Profit(pos, close_price),
     pips |-> Pips(pos, close_price)]

\* drawdown = (peak_equity - equity) / peak_equity
Drawdown(peak, eq) == FlRat(Fl(peak - eq) * DrawdownScale, peak)

\* the body of close_position with `if profit >= 0` for `if profit > 0`
Realize_zero_wins(close_price) ==
    LET profit == Profit(position, close_price)
        balance == Fl(current_balance + profit)
        peak == IF balance > peak_equity THEN balance ELSE peak_equity
        drawdown == Drawdown(peak, balance)
    IN  /\ current_balance' = balance
        /\ equity' = balance
        /\ IF profit >= 0
           THEN /\ winning_trades' = winning_trades + 1
                /\ total_profit' = Fl(total_profit + profit)
                /\ UNCHANGED <<losing_trades, total_loss>>
           ELSE /\ losing_trades' = losing_trades + 1
                /\ total_loss' = Fl(total_loss + Abs(profit))
                /\ UNCHANGED <<winning_trades, total_profit>>
        /\ peak_equity' = peak
        /\ max_drawdown' = IF drawdown > max_drawdown
                           THEN drawdown ELSE max_drawdown
        /\ closed_trades' = Append(closed_trades,
                                   TradeResult(position, close_price))
        /\ position' = None
        /\ UNCHANGED <<symbol, initial_balance>>

\* the bookkeeping of close_position without `self.equity =
\* self.current_balance`
Realize_equity_kept(close_price) ==
    LET profit == Profit(position, close_price)
        balance == Fl(current_balance + profit)
        peak == IF balance > peak_equity THEN balance ELSE peak_equity
        drawdown == Drawdown(peak, balance)
    IN  /\ current_balance' = balance
        /\ equity' = equity
        /\ IF profit > 0
           THEN /\ winning_trades' = winning_trades + 1
                /\ total_profit' = Fl(total_profit + profit)
                /\ UNCHANGED <<losing_trades, total_loss>>
           ELSE /\ losing_trades' = losing_trades + 1
                /\ total_loss' = Fl(total_loss + Abs(profit))
                /\ UNCHANGED <<winning_trades, total_profit>>
        /\ peak_equity' = peak
        /\ max_drawdown' = IF drawdown > max_drawdown
                           THEN drawdown ELSE max_drawdown
        /\ closed_trades' = Append(closed_trades,
                                   TradeResult(position, close_price))
        /\ position' = None
        /\ UNCHANGED <<symbol, initial_balance>>

\* the body of close_position once a position is known to be open
Realize(close_price) ==
    LET profit == Profit(position, close_price)
        balance == Fl(current_balance + profit)
        peak == IF balance > peak_equity THEN balance ELSE peak_equity
        drawdown == Drawdown(peak, balance)
    IN  /\ current_balance' = balance
        /\ equity' = balance
        /\ IF profit > 0
           THEN /\ winning_trades' = winning_trades + 1
                /\ total_profit' = Fl(total_profit + profit)
                /\ UNCHANGED <<losing_trades, total_loss>>
           ELSE /\ losing_trades' = losing_trades + 1
                /\ total_loss' = Fl(total_loss + Abs(profit))
                /\ UNCHANGED <<winning_trades, total_profit>>
        /\ peak_equity' = peak
        /\ max_drawdown' = IF drawdown > max_drawdown
                           THEN drawdown ELSE max_drawdown
        /\ closed_trades' = Append(closed_trades,
                                   TradeResult(position, close_price))
        /\ position' = None
        /\ UNCHANGED <<symbol, initial_balance>>

\* close_position without the `if self.position is None` guard: reading
\* self.position['type'] raises TypeError when no position is open
close_position_unguarded(close_price) ==
    /\ op' = "close_position"
    /\ levels_hit' = "none"
    /\ IF position = None
       THEN /\ ret' = "TypeError"
            /\ UNCHANGED ledger
       ELSE /\ Realize(close_price)
            /\ ret' = "trade"

close_position(close_price) ==
    /\ op' = "close_position"
    /\ levels_hit' = "none"
    /\ IF position = None
       THEN /\ ret' = "None"
            /\ UNCHANGED ledger
       ELSE /\ Realize(close_price)
            /\ ret' = "trade"

----------------------------------------------------------------------------
(* BaseStrategy.check_stop_loss_take_profit *)

\* the stop of pos is set and reached at current_price
StopReached(pos, current_price) ==
    /\ Truthy(pos.sl)
    /\ IF pos.type = "BUY"
       THEN current_price <= pos.sl.v ELSE current_price >= pos.sl.v

\* the take-profit of pos is set and reached at current_price
TakeProfitReached(pos, current_price) ==
    /\ Truthy(pos.tp)
    /\ IF pos.type = "BUY"
       THEN current_price >= pos.tp.v ELSE current_price <= pos.tp.v

\* which of the two `if`s of the check set should_close
LevelsHit(pos, current_price) ==
    IF pos = None THEN "none"
    ELSE IF StopReached(pos, current_price)
         THEN IF TakeProfitReached(pos, current_price)
              THEN "both" ELSE "sl"
         ELSE IF TakeProfitReached(pos, current_price)
              THEN "tp" ELSE "none"

\* should_close with strict comparisons
should_close_strict(pos, current_price) ==
    IF pos.type = "BUY"
    THEN \/ Truthy(pos.sl) /\ current_price < pos.sl.v
         \/ Truthy(pos.tp) /\ current_price > pos.tp.v
    ELSE \/ Truthy(pos.sl) /\ current_price > pos.sl.v
         \/ Truthy(pos.tp) /\ current_price < pos.tp.v

should_close(pos, current_price) ==
    IF pos.type = "BUY"
    THEN \/ Truthy(pos.sl) /\ current_price <= pos.sl.v
         \/ Truthy(pos.tp) /\ current_price >= pos.tp.v
    ELSE \/ Truthy(pos.sl) /\ current_price >= pos.sl.v
         \/ Truthy(pos.tp) /\ current_price <= pos.tp.v

\* check_stop_loss_take_profit closing once for the stop and once for the
\* take-profit when both are reached
check_stop_loss_take_profit_each(current_price) ==
    /\ op' = "check_stop_loss_take_profit"
    /\ levels_hit' = LevelsHit(position, current_price)
    /\ IF position = None
       THEN /\ ret' = "False"
            /\ UNCHANGED ledger
       ELSE IF should_close(position, current_price)
       THEN LET both == LevelsHit(position, current_price) = "both"
                profit == Profit(position, current_price)
                once == Fl(current_balance + profit)
                balance == IF both THEN Fl(once + profit) ELSE once
                trade == TradeResult(position, current_price)
                peak == IF balance > peak_equity THEN balance
                        ELSE peak_equity
                drawdown == Drawdown(peak, balance)
                n == IF both THEN 2 ELSE 1
            IN  /\ current_balance' = balance
                /\ equity' = balance
                /\ IF profit > 0
                   THEN /\ winning_trades' = winning_trades + n
                        /\ total_profit' = Fl(total_profit + n * profit)
                        /\ UNCHANGED <<losing_trades, total_loss>>
                   ELSE /\ losing_trades' = losing_trades + n
                        /\ total_loss' = Fl(total_loss + n * Abs(profit))
                        /\ UNCHANGED <<winning_trades, total_profit>>
                /\ peak_equity' = peak
                /\ max_drawdown' = IF drawdown > max_drawdown
                                   THEN drawdown ELSE max_drawdown
                /\ closed_trades' =
                      IF both
                      THEN Append(Append(closed_trades, trade), trade)
                      ELSE Append(closed_trades, trade)
                /\ position' = None
                /\ UNCHANGED <<symbol, initial_balance>>
                /\ ret' = "True"
       ELSE /\ ret' = "False"
            /\ UNCHANGED ledger

check_stop_loss_take_profit(current_price) ==
    /\ op' = "check_stop_loss_take_profit"
    /\ levels_hit' = LevelsHit(position, current_price)
    /\ IF position = None
       THEN /\ ret' = "False"
            /\ UNCHANGED ledger
       ELSE IF should_close(position, current_price)
       THEN /\ Realize(current_price)
            /\ ret' = "True"
       ELSE /\ ret' = "False"
            /\ UNCHANGED ledger

----------------------------------------------------------------------------
(* BaseStrategy.get_performance_metrics                                    *)
(* Ratios are counted in 1/DrawdownScale and percentages in                *)
(* 1/DrawdownScale percent; 'parameters' is left out.                      *)

\* (total_profit / total_loss) if total_loss >= 0 else 0
ProfitFactor_unguarded(profit, loss) ==
    IF loss >= 0 THEN FlRat(profit * DrawdownScale, Max(loss, 1)) ELSE 0

\* (self.total_profit / self.total_loss) if self.total_loss > 0 else 0
ProfitFactor(profit, loss) ==
    IF loss > 0 THEN FlRat(profit * DrawdownScale, loss) ELSE 0

\* the metrics of a ledger with the given fields
Metrics(initial, eq, total_trades, wins, losses, profit, loss, drawdown) ==
    [initial_balance |-> initial,
     final_balance |-> eq,
     total_return_pct |->
         Fl(FlRat(Fl(eq - initial) * DrawdownScale, initial) * 100),
     total_trades |-> total_trades,
     winning_trades |-> wins,
     losing_trades |-> losses,
     win_rate_pct |->
         IF total_trades > 0
         THEN Fl(FlRat(wins * DrawdownScale, total_trades) * 100)
         ELSE 0,
     total_profit |-> profit,
     total_loss |-> loss,
     profit_factor |-> ProfitFactor(profit, loss),
     avg_win |-> IF wins > 0 THEN FlRat(profit, wins) ELSE 0,
     avg_loss |-> IF losses > 0 THEN FlRat(loss, losses) ELSE 0,
     max_drawdown_pct |-> Fl(drawdown * 100)]

get_performance_metrics ==
    Metrics(initial_balance, equity, Len(closed_trades), winning_trades,
            losing_trades, total_profit, total_loss, max_drawdown)

----------------------------------------------------------------------------
(* The Polymarket ledger (polymarket/strategies/base_strategy.py)          *)
(* Money is counted in 1e-12 USDC, prices in 0.01, position sizes in 1e-12 *)
(* token and signal sizes in quarters.  Every float the model computes is  *)
(* finite, so the np.isfinite guards of the code always pass and are not   *)
(* written out.  Where the Polymarket ledger is not the one under test it  *)
(* is a ledger constructed with a zero balance.                            *)

PMTokens == {"t1", "t2"}

\* keys of the dict in a fixed order; sum() adds two floats in either order
\* to the same result
PMTokenOrder == <<"t1", "t2">>

PMBalances == {0, 1000}

\* Yes prices: 0 and 100 are the invalid prices 0.0 and 1.0
PMPrices == {0, 40, 50, 100}

\* MarketSignal.size: 0.0, 0.5, 1.0
SignalSizes == {0, 2, 4}

max_position_size == 5     \* 0.5, in tenths
max_total_exposure == 8    \* 0.8, in tenths

\* BaseStrategy.__init__
NewPolymarket(balance) ==
    /\ pm_initial_balance = balance
    /\ pm_current_balance = balance
    /\ pm_equity = balance
    /\ pm_positions = [t \in PMTokens |-> None]
    /\ pm_closed_positions = <<>>
    /\ pm_total_trades = 0
    /\ pm_winning_trades = 0
    /\ pm_losing_trades = 0
    /\ pm_total_profit = 0
    /\ pm_total_loss = 0
    /\ pm_max_drawdown = 0
    /\ pm_peak_equity = balance
    /\ pm_trades = <<>>

\* BacktestEngine.__init__ (polymarket) of an engine that is never run
PMEngineIdle ==
    /\ pm_pc = "idle"
    /\ pm_fetched = FALSE
    /\ pm_markets = <<>>
    /\ pm_market = 0
    /\ pm_days = 0
    /\ pm_day = 0
    /\ pm_equity_curve = <<>>
    /\ pm_report = None

\* the values of one field over self.positions.values()
PositionValues(field) ==
    LET held == SelectSeq(PMTokenOrder, LAMBDA t : pm_positions[t] # None)
    IN  [k \in 1..Len(held) |-> pm_positions[held[k]][field]]

RECURSIVE PySumFrom(_, _)
\* Python's sum(): a left fold from 0, each addition rounded
PySumFrom(acc, xs) ==
    IF xs = <<>> THEN acc ELSE PySumFrom(Fl(acc + Head(xs)), Tail(xs))

\* update_position: the position after the price update
UpdatedPosition(pos, current_price) ==
    IF ~(current_price > 0 /\ current_price < 100) THEN pos
    ELSE IF ~(pos.size > 0) THEN pos
    ELSE IF ~(pos.entry_price > 0) THEN pos
    ELSE [pos EXCEPT
            !.current_price = current_price,
            !.unrealized_pnl =
                FlRat(Fl(current_price - pos.entry_price) * pos.size, 100)]

update_position(token_id, current_price) ==
    /\ pm_positions' =
          IF pm_positions[token_id] # None
          THEN [pm_positions EXCEPT
                  ![token_id] = UpdatedPosition(@, current_price)]
          ELSE pm_positions
    /\ UNCHANGED <<pm_initial_balance, pm_current_balance, pm_equity,
                   pm_closed_positions, pm_total_trades, pm_winning_trades,
                   pm_losing_trades, pm_total_profit, pm_total_loss,
                   pm_max_drawdown, pm_peak_equity, pm_trades>>

\* balance + unrealized PnL
calculate_equity ==
    Fl(pm_current_balance + PySumFrom(0, PositionValues("unrealized_pnl")))

\* update_drawdown storing the drawdown of every mark
update_drawdown_last ==
    LET eq == calculate_equity
        peak == IF eq > pm_peak_equity THEN eq ELSE pm_peak_equity
    IN  /\ pm_equity' = eq
        /\ pm_peak_equity' = peak
        /\ pm_max_drawdown' = IF peak > 0 THEN Drawdown(peak, eq) ELSE 0
        /\ UNCHANGED <<pm_initial_balance, pm_current_balance, pm_positions,
                       pm_closed_positions, pm_total_trades,
                       pm_winning_trades, pm_losing_trades, pm_total_profit,
                       pm_total_loss, pm_trades>>

update_drawdown ==
    LET eq == calculate_equity
        peak == IF eq > pm_peak_equity THEN eq ELSE pm_peak_equity
        drawdown == Drawdown(peak, eq)
    IN  /\ pm_equity' = eq
        /\ pm_peak_equity' = peak
        /\ pm_max_drawdown' =
              IF peak > 0
              THEN IF drawdown > pm_max_drawdown
                   THEN drawdown ELSE pm_max_drawdown
              ELSE 0
        /\ UNCHANGED <<pm_initial_balance, pm_current_balance, pm_positions,
                       pm_closed_positions, pm_total_trades,
                       pm_winning_trades, pm_losing_trades, pm_total_profit,
                       pm_total_loss, pm_trades>>

can_open_position(size, token_id) ==
    /\ size > 0
    /\ pm_current_balance > 0
    /\ pm_positions[token_id] = None
    /\ ~(size > FlRat(pm_current_balance * max_position_size, 10))
    /\ ~(Fl(PySumFrom(0, PositionValues("size")) + size)
            > FlRat(pm_current_balance * max_total_exposure, 10))
    /\ ~(size > pm_current_balance)

\* the trade dictionary appended to BacktestEngine.trades
Trade(action, token_id, current_price, position_size) ==
    [action |-> action, token_id |-> token_id, price |-> current_price,
     size |-> position_size]

\* execute_signal returning None before anything is changed
Declined == UNCHANGED polymarket

\* execute_signal for a BUY signal without the can_open_position test
ExecuteBuy_unchecked(token_id, size, current_price) ==
    LET balance == pm_current_balance
        position_size == Min(FlRat(size * balance, 4),
                             FlRat(balance * max_position_size, 10))
        tokens_bought == FlRat(position_size * 100, current_price)
    IN  IF \/ ~(balance > 0)
           \/ ~(position_size > 0)
           \/ position_size > balance
           \/ ~(tokens_bought > 0)
           \/ ~(balance >= position_size)
        THEN Declined
        ELSE /\ pm_current_balance' = Fl(balance - position_size)
             /\ pm_positions' =
                   [pm_positions EXCEPT ![token_id] =
                       [size |-> tokens_bought,
                        entry_price |-> current_price,
                        current_price |-> current_price,
                        unrealized_pnl |-> 0,
                        realized_pnl |-> 0]]
             /\ pm_trades' = Append(pm_trades,
                   Trade("BUY", token_id, current_price, position_size))
             /\ UNCHANGED <<pm_initial_balance, pm_equity,
                            pm_closed_positions, pm_total_trades,
                            pm_winning_trades, pm_losing_trades,
                            pm_total_profit, pm_total_loss,
                            pm_max_drawdown, pm_peak_equity>>

\* execute_signal for a BUY signal
ExecuteBuy(token_id, size, current_price) ==
    LET balance == pm_current_balance
        position_size == Min(FlRat(size * balance, 4),
                             FlRat(balance * max_position_size, 10))
        tokens_bought == FlRat(position_size * 100, current_price)
    IN  IF \/ ~(balance > 0)
           \/ ~(position_size > 0)
           \/ ~can_open_position(position_size, token_id)
           \/ position_size > balance
           \/ ~(tokens_bought > 0)
           \/ ~(balance >= position_size)
        THEN Declined
        ELSE /\ pm_current_balance' = Fl(balance - position_size)
             /\ pm_positions' =
                   [pm_positions EXCEPT ![token_id] =
                       [size |-> tokens_bought,
                        entry_price |-> current_price,
                        current_price |-> current_price,
                        unrealized_pnl |-> 0,
                        realized_pnl |-> 0]]
             /\ pm_trades' = Append(pm_trades,
                   Trade("BUY", token_id, current_price, position_size))
             /\ UNCHANGED <<pm_initial_balance, pm_equity,
                            pm_closed_positions, pm_total_trades,
                            pm_winning_trades, pm_losing_trades,
                            pm_total_profit, pm_total_loss,
                            pm_max_drawdown, pm_peak_equity>>

\* execute_signal for a SELL signal on a token that is held
ExecuteSell(token_id, size, current_price) ==
    LET pos == pm_positions[token_id]
        position_size == FlRat(FlRat(pos.size * current_price, 100) * size, 4)
        close_size == FlRat(pos.size * size, 4)
        exit_value == FlRat(close_size * current_price, 100)
        entry_cost == FlRat(close_size * pos.entry_price, 100)
        pnl == Fl(exit_value - entry_cost)
        remaining == Fl(pos.size - close_size)
    IN  IF \/ ~(pos.size > 0)
           \/ ~(position_size > 0)
           \/ ~(pos.entry_price > 0)
           \/ ~(close_size > 0)
        THEN Declined
        ELSE /\ pm_current_balance' = Fl(pm_current_balance + exit_value)
             /\ pm_total_trades' = pm_total_trades + 1
             /\ IF pnl > 0
                THEN /\ pm_winning_trades' = pm_winning_trades + 1
                     /\ pm_total_profit' = Fl(pm_total_profit + pnl)
                     /\ UNCHANGED <<pm_losing_trades, pm_total_loss>>
                ELSE /\ pm_losing_trades' = pm_losing_trades + 1
                     /\ pm_total_loss' = Fl(pm_total_loss + Abs(pnl))
                     /\ UNCHANGED <<pm_winning_trades, pm_total_profit>>
             /\ IF size >= 4
                THEN /\ pm_closed_positions' =
                           Append(pm_closed_positions,
                                  [pos EXCEPT !.realized_pnl = pnl])
                     /\ pm_positions' =
                           [pm_positions EXCEPT ![token_id] = None]
                ELSE /\ pm_positions' =
                           [pm_positions EXCEPT ![token_id] =
                              [pos EXCEPT
                                 !.size = IF remaining >= 0
                                          THEN remaining ELSE 0,
                                 !.realized_pnl = Fl(@ + pnl)]]
                     /\ UNCHANGED pm_closed_positions
             /\ pm_trades' = Append(pm_trades,
                   Trade("SELL", token_id, current_price, position_size))
             /\ UNCHANGED <<pm_initial_balance, pm_equity, pm_max_drawdown,
                            pm_peak_equity>>

\* BacktestEngine.execute_signal (polymarket) with signal.token_id given
execute_signal(action, token_id, size, current_price) ==
    IF current_price <= 0 \/ current_price >= 100 THEN Declined
    ELSE IF action = "SELL"
         THEN IF pm_positions[token_id] = None THEN Declined
              ELSE ExecuteSell(token_id, size, current_price)
         ELSE ExecuteBuy(token_id, size, current_price)

----------------------------------------------------------------------------
\* the value of indicator_value before get_indicator_value is called
Unset == [unset |-> TRUE]

\* no indicator is asked for
NoIndicator ==
    /\ indicator_series = None
    /\ query_time = 0
    /\ indicator_value = Unset

\* the strategy under test is not the ONNX strategy
NoONNX ==
    /\ historical_bars = <<>>
    /\ lookback = 0
    /\ bars_delivered = 0
    /\ predicted = FALSE
    /\ price_change_pct = Unset
    /\ prediction_threshold = 0
    /\ onnx_min_confidence = 0

\* the strategy under test is not one of the rule-based examples
NoRules ==
    /\ strategy = "BaseStrategy"
    /\ rule_bars = <<>>
    /\ prev_rsi = None
    /\ prev_price = None
    /\ prev_ema = None
    /\ delivered = None

\* no parameter sweep is made
NoSweep ==
    /\ total_combinations = 0
    /\ combo = 0
    /\ results = <<>>
    /\ tested = <<>>
    /\ returned = None

\* no request is made to the dashboard
NoDashboard ==
    /\ backtest_running = FALSE
    /\ handler = <<>>
    /\ thread = <<>>

NoExtra == NoRules /\ NoSweep /\ NoDashboard /\ pm_signal = None

----------------------------------------------------------------------------
(* BaseStrategy.__init__ *)

NewLedger(sym, balance) ==
    /\ symbol = sym
    /\ initial_balance = balance
    /\ current_balance = balance
    /\ equity = balance
    /\ position = None
    /\ closed_trades = <<>>
    /\ max_drawdown = 0
    /\ peak_equity = balance
    /\ total_profit = 0
    /\ total_loss = 0
    /\ winning_trades = 0
    /\ losing_trades = 0

----------------------------------------------------------------------------
(* A caller that makes arbitrary ledger calls, in any order *)

LedgerInit ==
    /\ mode = "ledger"
    /\ \E a \in Accounts : NewLedger(a[1], a[2])
    /\ NewPolymarket(0)
    /\ op = "__init__"
    /\ levels_hit = "none"
    /\ ret = "None"
    /\ calls = 0
    /\ pc = "idle"
    /\ nbars = 0
    /\ i = 0
    /\ rate = 0
    /\ bar_events = <<>>
    /\ report = None
    /\ NoIndicator
    /\ NoONNX
    /\ NoExtra
    /\ PMEngineIdle

CallOpen ==
    /\ mode = "ledger"
    /\ calls < MaxCalls
    /\ calls' = calls + 1
    /\ \E t \in OrderTypes, v \in Volumes, p \in Prices, l \in LevelPairs :
          open_position(t, v, p, l[1], l[2])
    /\ UNCHANGED <<extra, indicator, onnx, pmengine, polymarket, mode, engine>>

CallClose ==
    /\ mode = "ledger"
    /\ calls < MaxCalls
    /\ calls' = calls + 1
    /\ \E p \in Prices : close_position(p)
    /\ UNCHANGED <<extra, indicator, onnx, pmengine, polymarket, mode, engine>>

CallCheck ==
    /\ mode = "ledger"
    /\ calls < MaxCalls
    /\ calls' = calls + 1
    /\ \E p \in Prices : check_stop_loss_take_profit(p)
    /\ UNCHANGED <<extra, indicator, onnx, pmengine, polymarket, mode, engine>>

LedgerNext == CallOpen \/ CallClose \/ CallCheck

LedgerSpec == LedgerInit /\ [][LedgerNext]_vars

\* the same caller when it never checks stops
OpenCloseNext == CallOpen \/ CallClose

OpenCloseSpec == LedgerInit /\ [][OpenCloseNext]_vars

----------------------------------------------------------------------------
(* A caller that only opens, on accounts and at prices around the margin   *)
(* limit                                                                   *)

MarginAccounts ==
    { <<sym, balance>> : sym \in {EURUSD, XAUUSD, GOLD},
                         balance \in {1, 2, 10, 12, 10000} }

MarginPrices == {90, 100, 101}

MarginInit ==
    /\ mode = "ledger"
    /\ \E a \in MarginAccounts : NewLedger(a[1], a[2])
    /\ NewPolymarket(0)
    /\ op = "__init__"
    /\ levels_hit = "none"
    /\ ret = "None"
    /\ calls = 0
    /\ pc = "idle"
    /\ nbars = 0
    /\ i = 0
    /\ rate = 0
    /\ bar_events = <<>>
    /\ report = None
    /\ NoIndicator
    /\ NoONNX
    /\ NoExtra
    /\ PMEngineIdle

MarginOpen ==
    /\ mode = "ledger"
    /\ calls < MaxCalls
    /\ calls' = calls + 1
    /\ \E t \in OrderTypes, v \in Volumes, p \in MarginPrices,
          l \in LevelPairs :
          open_position(t, v, p, l[1], l[2])
    /\ UNCHANGED <<extra, indicator, onnx, pmengine, polymarket, mode, engine>>

MarginSpec == MarginInit /\ [][MarginOpen]_vars

----------------------------------------------------------------------------
(* The rule-based example strategies (example_strategies.py)               *)
(* A bar is [time, close, spread, rsi, ema]; rsi and ema are None when     *)
(* get_bar_data attached no value of that indicator.  RSI is counted in    *)
(* points, spread in points, ema in pips.                                  *)

MaxRuleBars == 3       \* bars of a run of a rule-based strategy
MaxSweepBars == 1      \* bars of a run of a parameter sweep
MaxCombinations == 2   \* parameter combinations of a sweep
MaxUptrendBars == 100  \* bars of the uptrend

\* lot_size = 0.1, the default of every example strategy
lot_size == 10

max_spread == 1000
rsi_overbought == 70
rsi_oversold == 30
rsi_target_buy == 80
rsi_target_sell == 20
rsi_exit == 50
StopLossPips == 50
TakeProfitPips == 100

RuleStrategies ==
    {"RSIScalpingStrategy", "EMAStrategy", "RSIReversalStrategy"}

\* sl and tp of an entry at current_price
EntryLevels(side, current_price) ==
    IF side = "BUY"
    THEN <<Some(current_price - StopLossPips),
           Some(current_price + TakeProfitPips)>>
    ELSE <<Some(current_price + StopLossPips),
           Some(current_price - TakeProfitPips)>>

\* the ledger call on_bar decided on: "none", "close", "BUY" or "SELL"
RuleCall(decision, current_price) ==
    IF decision = "none"
    THEN UNCHANGED <<ledger, last, calls>>
    ELSE /\ calls' = calls + 1
         /\ IF decision = "close"
            THEN close_position(current_price)
            ELSE open_position(decision, lot_size, current_price,
                               EntryLevels(decision, current_price)[1],
                               EntryLevels(decision, current_price)[2])

\* RSIScalpingStrategy.on_bar: exit at the target levels, entry on a cross
\* of the oversold / overbought level
RSIScalpingDecision(rsi) ==
    IF position # None
    THEN IF position.type = "BUY"
         THEN IF rsi >= rsi_target_buy THEN "close" ELSE "none"
         ELSE IF rsi <= rsi_target_sell THEN "close" ELSE "none"
    ELSE IF prev_rsi = None THEN "none"
    ELSE IF prev_rsi.v <= rsi_oversold /\ rsi > rsi_oversold THEN "BUY"
    ELSE IF prev_rsi.v >= rsi_overbought /\ rsi < rsi_overbought THEN "SELL"
    ELSE "none"

RSIScalpingOnBar(bar_data) ==
    IF bar_data.rsi = None
    THEN UNCHANGED <<ledger, last, calls, prev_rsi>>
    ELSE IF bar_data.spread > max_spread
    THEN UNCHANGED <<ledger, last, calls, prev_rsi>>
    ELSE /\ RuleCall(RSIScalpingDecision(bar_data.rsi.v), bar_data.close)
         /\ prev_rsi' = bar_data.rsi

\* the entry rule without the test of the previous bar
EMADecision_no_memory(ema, current_price) ==
    IF position # None
    THEN IF position.type = "BUY" /\ current_price < ema THEN "close"
         ELSE IF position.type = "SELL" /\ current_price > ema THEN "close"
         ELSE "none"
    ELSE IF prev_price = None \/ prev_ema = None THEN "none"
    ELSE IF current_price > ema THEN "BUY"
    ELSE IF current_price < ema THEN "SELL"
    ELSE "none"

\* EMAStrategy.on_bar: exit on the opposite side of the EMA, entry on a
\* cross of the EMA
EMADecision(ema, current_price) ==
    IF position # None
    THEN IF position.type = "BUY" /\ current_price < ema THEN "close"
         ELSE IF position.type = "SELL" /\ current_price > ema THEN "close"
         ELSE "none"
    ELSE IF prev_price = None \/ prev_ema = None THEN "none"
    ELSE IF prev_price.v <= prev_ema.v /\ current_price > ema THEN "BUY"
    ELSE IF prev_price.v >= prev_ema.v /\ current_price < ema THEN "SELL"
    ELSE "none"

EMAOnBar(bar_data) ==
    IF bar_data.ema = None
    THEN UNCHANGED <<ledger, last, calls, prev_price, prev_ema>>
    ELSE /\ RuleCall(EMADecision(bar_data.ema.v, bar_data.close),
                     bar_data.close)
         /\ prev_price' = Some(bar_data.close)
         /\ prev_ema' = bar_data.ema

\* RSIReversalStrategy.on_bar: exit at the neutral level, entry when the RSI
\* turns from beyond the oversold / overbought level
RSIReversalDecision(rsi) ==
    IF position # None
    THEN IF position.type = "BUY" /\ rsi >= rsi_exit THEN "close"
         ELSE IF position.type = "SELL" /\ rsi <= rsi_exit THEN "close"
         ELSE "none"
    ELSE IF prev_rsi = None THEN "none"
    ELSE IF prev_rsi.v < rsi_oversold /\ rsi > prev_rsi.v THEN "BUY"
    ELSE IF prev_rsi.v > rsi_overbought /\ rsi < prev_rsi.v THEN "SELL"
    ELSE "none"

RSIReversalOnBar(bar_data) ==
    IF bar_data.rsi = None
    THEN UNCHANGED <<ledger, last, calls, prev_rsi>>
    ELSE /\ RuleCall(RSIReversalDecision(bar_data.rsi.v), bar_data.close)
         /\ prev_rsi' = bar_data.rsi

\* the bar carries the indicator the strategy asked for
Present(bar_data) == bar_data.rsi # None \/ bar_data.ema # None

\* self.strategy.on_bar(bar_data) of a rule-based strategy, to its return
RuleOnBar ==
    /\ mode = "rules" /\ pc = "in_on_bar"
    /\ CASE strategy = "RSIScalpingStrategy" ->
               /\ RSIScalpingOnBar(rule_bars[i])
               /\ UNCHANGED <<prev_price, prev_ema>>
         [] strategy = "EMAStrategy" ->
               /\ EMAOnBar(rule_bars[i])
               /\ UNCHANGED prev_rsi
         [] strategy = "RSIReversalStrategy" ->
               /\ RSIReversalOnBar(rule_bars[i])
               /\ UNCHANGED <<prev_price, prev_ema>>
    /\ delivered' = IF Present(rule_bars[i])
                    THEN Some(rule_bars[i])
                    ELSE delivered
    /\ pc' = "mark"
    /\ UNCHANGED <<dashboard, pm_signal, strategy, rule_bars, sweep, indicator, onnx, pmengine,
                   polymarket, mode, nbars, i, rate, bar_events, report>>

\* the indicator values a bar can carry for the strategy
BarData(s) ==
    IF s = "EMAStrategy"
    THEN { [close |-> c, spread |-> 0, rsi |-> None, ema |-> e] :
             c \in Prices, e \in {None, Some(100), Some(101)} }
    ELSE IF s = "RSIScalpingStrategy"
    THEN { [close |-> 100, spread |-> sp, rsi |-> r, ema |-> None] :
             sp \in {0, max_spread + 1},
             r \in {None, Some(20), Some(40), Some(80)} }
    ELSE { [close |-> c, spread |-> 0, rsi |-> r, ema |-> None] :
             c \in Prices, r \in {None, Some(20), Some(40), Some(80)} }

\* the times of the bars, in the order copy_rates_range returned them
TimeLines == { <<1, 2, 3, 4>>, <<2, 1, 3, 4>>, <<1, 1, 2, 3>> }

RuleBars(s) ==
    { [k \in 1..MaxRuleBars |->
          [time |-> t[k], close |-> f[k].close, spread |-> f[k].spread,
           rsi |-> f[k].rsi, ema |-> f[k].ema]] :
        t \in TimeLines, f \in [1..MaxRuleBars -> BarData(s)] }

\* a freshly constructed rule-based strategy and its engine
RuleInitOver(accounts, strategies) ==
    /\ mode = "rules"
    /\ \E a \in accounts : NewLedger(a[1], a[2])
    /\ NewPolymarket(0)
    /\ op = "__init__"
    /\ levels_hit = "none"
    /\ ret = "None"
    /\ calls = 0
    /\ pc = "start"
    /\ nbars = 0
    /\ i = 0
    /\ rate = 0
    /\ bar_events = <<>>
    /\ report = None
    /\ NoIndicator
    /\ NoONNX
    /\ PMEngineIdle
    /\ NoSweep
    /\ NoDashboard
    /\ pm_signal = None
    /\ strategy \in strategies
    /\ prev_rsi = None
    /\ prev_price = None
    /\ prev_ema = None
    /\ delivered = None

RuleInit ==
    /\ RuleInitOver({<<EURUSD, 10000>>}, RuleStrategies)
    /\ rule_bars \in RuleBars(strategy)

\* calculate_ema: prices.ewm(span=period, adjust=False).mean(), computed
\* front to back
RECURSIVE EwmFrom(_, _, _)
EwmFrom(prices, period, acc) ==
    IF Len(acc) = Len(prices)
    THEN acc
    ELSE EwmFrom(prices, period,
                 Append(acc,
                        IF acc = <<>>
                        THEN prices[1]
                        ELSE FlRat((period - 1) * acc[Len(acc)]
                                     + 2 * prices[Len(acc) + 1],
                                   period + 1)))

calculate_ema(prices, period) == EwmFrom(prices, period, <<>>)

\* close[i] = 100 + i * 0.1 for i = 0 .. MaxUptrendBars - 1, in pips
UptrendCloses == [k \in 1..MaxUptrendBars |-> 1000000 + (k - 1) * 1000]

\* the uptrend with the EMA(20) of its closes attached to every bar
UptrendBars ==
    LET ema == calculate_ema(UptrendCloses, 20)
    IN  [k \in 1..MaxUptrendBars |->
            [time |-> k, close |-> UptrendCloses[k], spread |-> 0,
             rsi |-> None, ema |-> Some(ema[k])]]

\* balances of 10000 and 20000
UptrendAccounts ==
    { <<sym, balance>> : sym \in {EURUSD, XAUUSD},
                         balance \in {100000, 200000} }

\* EMAStrategy(ema_period=20, lot_size=0.1, stop_loss_pips=50,
\* take_profit_pips=100) run over the uptrend
UptrendInit ==
    /\ RuleInitOver(UptrendAccounts, {"EMAStrategy"})
    /\ rule_bars = UptrendBars

----------------------------------------------------------------------------
(* BacktestEngine.run (MT5) with an arbitrary strategy                     *)
(* rates is read one bar at a time, so the model draws each bar's close    *)
(* when the loop reaches it; nbars is len(rates).                          *)
(* get_bar_data(bar_time) asks the terminal again for the bar at bar_time: *)
(* it returns None, or that bar, whose close is rates[i]['close'].  The    *)
(* timestamps, the indicator values and processed_bars (used for progress  *)
(* output only) are left out.                                              *)

RunInit ==
    /\ mode = "run"
    /\ \E a \in Accounts : NewLedger(a[1], a[2])
    /\ NewPolymarket(0)
    /\ op = "__init__"
    /\ levels_hit = "none"
    /\ ret = "None"
    /\ calls = 0
    /\ pc = "start"
    /\ nbars = 0
    /\ i = 0
    /\ rate = 0
    /\ bar_events = <<>>
    /\ report = None
    /\ NoIndicator
    /\ NoONNX
    /\ NoExtra
    /\ PMEngineIdle

\* the drivers that execute BacktestEngine.run
RunModes == {"run", "rules", "sweep"}

\* the drivers whose strategy is an arbitrary one
StrategyModes == {"run", "sweep"}

\* what copy_rates_range returns: None or len(rates) bars; all the bars of a
\* rule-based run
Fetched ==
    IF mode = "rules"
    THEN {Some(Len(rule_bars))}
    ELSE IF mode = "sweep"
    THEN {None} \cup {Some(n) : n \in 0..MaxSweepBars}
    ELSE {None} \cup {Some(n) : n \in 0..MaxBars}

\* the close of rates[k - 1], the k-th bar of the loop
Closes(k) == IF mode = "rules" THEN {rule_bars[k].close} ELSE Prices

\* the test for missing data without `len(rates) == 0`
NoData_none_only(rates) == rates = None

\* rates is None or len(rates) == 0
NoData(rates) == rates = None \/ rates.v = 0

\* rates = mt5.copy_rates_range(...); raise ValueError when there is no data
RunStart ==
    /\ mode \in RunModes /\ pc = "start"
    /\ \E rates \in Fetched :
          /\ nbars' = IF rates = None THEN 0 ELSE rates.v
          /\ IF NoData(rates)
             THEN /\ pc' = "ValueError"
                  /\ UNCHANGED <<i, rate>>
             ELSE /\ i' = 1
                  /\ rate' \in Closes(1)
                  /\ pc' = "get_bar_data"
    /\ UNCHANGED <<extra, indicator, onnx, pmengine, polymarket, mode, report, ledger, last, calls, bar_events>>

\* for i, rate in enumerate(rates): the next iteration, or the loop's end
NextBar ==
    IF i < nbars
    THEN /\ i' = i + 1
         /\ rate' \in Closes(i + 1)
         /\ pc' = "get_bar_data"
    ELSE /\ pc' = "end"
         /\ UNCHANGED <<i, rate>>

\* bar_data = self.get_bar_data(bar_time); if bar_data is None: continue
RunGetBarData ==
    /\ mode \in RunModes /\ pc = "get_bar_data"
    /\ bar_events' = <<>>
    /\ \/ /\ mode \in StrategyModes
          /\ NextBar
       \/ /\ pc' = "check"
          /\ UNCHANGED <<i, rate>>
    /\ UNCHANGED <<extra, indicator, onnx, pmengine, polymarket, mode, report, ledger, last, calls, nbars>>

\* the loop body without the stop-loss/take-profit check
RunCheck_skipped ==
    /\ mode \in RunModes /\ pc = "check"
    /\ pc' = "on_bar"
    /\ UNCHANGED <<extra, indicator, onnx, pmengine, polymarket, mode, report, ledger, last, bar_events, calls, nbars, i, rate>>

\* if self.strategy.position is not None: check_stop_loss_take_profit(close)
RunCheck ==
    /\ mode \in RunModes /\ pc = "check"
    /\ IF position # None
       THEN /\ check_stop_loss_take_profit(rate)
            /\ bar_events' = Append(bar_events, "check")
       ELSE UNCHANGED <<ledger, last, bar_events>>
    /\ pc' = "on_bar"
    /\ UNCHANGED <<extra, indicator, onnx, pmengine, polymarket, mode, report, calls, nbars, i, rate>>

\* self.strategy.on_bar(bar_data) begins
RunOnBar ==
    /\ mode \in RunModes /\ pc = "on_bar"
    /\ pc' = "in_on_bar"
    /\ bar_events' = Append(bar_events, "on_bar")
    /\ UNCHANGED <<extra, indicator, onnx, pmengine, polymarket, mode, report, ledger, last, calls, nbars, i, rate>>

\* on_bar calls self.open_position(...)
StrategyOpen ==
    /\ mode \in StrategyModes /\ pc = "in_on_bar"
    /\ calls < MaxStrategyCalls
    /\ calls' = calls + 1
    /\ \E t \in OrderTypes, v \in Volumes, p \in Prices, l \in LevelPairs :
          open_position(t, v, p, l[1], l[2])
    /\ UNCHANGED <<extra, indicator, onnx, pmengine, polymarket, mode, engine>>

\* on_bar calls self.close_position(...)
StrategyClose ==
    /\ mode \in StrategyModes /\ pc = "in_on_bar"
    /\ calls < MaxStrategyCalls
    /\ calls' = calls + 1
    /\ \E p \in Prices : close_position(p)
    /\ UNCHANGED <<extra, indicator, onnx, pmengine, polymarket, mode, engine>>

\* on_bar returns
OnBarReturn ==
    /\ mode \in StrategyModes /\ pc = "in_on_bar"
    /\ pc' = "mark"
    /\ UNCHANGED <<extra, indicator, onnx, pmengine, polymarket, mode, report, ledger, last, calls, nbars, i, rate, bar_events>>

\* on_bar raises and nothing catches the exception: run is left
OnBarRaise_uncaught ==
    /\ mode \in StrategyModes /\ pc = "in_on_bar"
    /\ pc' = "Exception"
    /\ UNCHANGED <<extra, indicator, onnx, pmengine, polymarket, mode, report, ledger, last, calls, nbars, i,
                   rate, bar_events>>

\* on_bar raises: except Exception ... continue
OnBarRaise ==
    /\ mode \in StrategyModes /\ pc = "in_on_bar"
    /\ NextBar
    /\ UNCHANGED <<extra, indicator, onnx, pmengine, polymarket, mode, report, ledger, last, calls, nbars, bar_events>>

\* unrealized_pnl computed with the BUY formula for both sides
UnrealizedPnl_buy_only(pos, close) ==
    Fl(Fl(close - pos.open_price) * pos.volume)

\* unrealized_pnl = (close - open_price) * volume * 10000 * 10 (BUY)
UnrealizedPnl(pos, close) ==
    IF pos.type = "BUY"
    THEN Fl(Fl(close - pos.open_price) * pos.volume)
    ELSE Fl(Fl(pos.open_price - close) * pos.volume)

MarkedEquity(pos, balance, close) ==
    IF pos # None
    THEN Fl(balance + UnrealizedPnl(pos, close))
    ELSE balance

\* the mark step writing the marked value into current_balance as well
RunMark_balance ==
    /\ mode \in RunModes /\ pc = "mark"
    /\ equity' = MarkedEquity(position, current_balance, rate)
    /\ current_balance' = MarkedEquity(position, current_balance, rate)
    /\ bar_events' = Append(bar_events, "mark")
    /\ NextBar
    /\ UNCHANGED <<extra, indicator, onnx, pmengine, polymarket, mode, report, symbol, initial_balance, position,
                   closed_trades, max_drawdown, peak_equity, total_profit,
                   total_loss, winning_trades, losing_trades, last, calls,
                   nbars>>

\* Update equity (unrealized P&L)
RunMark ==
    /\ mode \in RunModes /\ pc = "mark"
    /\ equity' = MarkedEquity(position, current_balance, rate)
    /\ bar_events' = Append(bar_events, "mark")
    /\ NextBar
    /\ UNCHANGED <<extra, indicator, onnx, pmengine, polymarket, mode, report, symbol, initial_balance, current_balance, position,
                   closed_trades, max_drawdown, peak_equity, total_profit,
                   total_loss, winning_trades, losing_trades, last, calls,
                   nbars>>

\* the end of run without the forced close
RunEnd_no_close ==
    /\ mode \in RunModes /\ pc = "end"
    /\ pc' = "done"
    /\ report' = [metrics |-> get_performance_metrics,
                  trades |-> closed_trades]
    /\ UNCHANGED <<extra, indicator, onnx, pmengine, polymarket, mode, ledger, last, calls, nbars, i, rate,
                   bar_events>>

\* Close any open position at the end: rates[-1] is the bar last drawn
RunEnd ==
    /\ mode \in RunModes /\ pc = "end"
    /\ IF position # None
       THEN close_position(rate)
       ELSE UNCHANGED <<ledger, last>>
    /\ pc' = "done"
    /\ report' = [metrics |->
                      Metrics(initial_balance', equity',
                              Len(closed_trades'), winning_trades',
                              losing_trades', total_profit', total_loss',
                              max_drawdown'),
                  trades |-> closed_trades']
    /\ UNCHANGED <<extra, indicator, onnx, pmengine, polymarket, mode, calls, nbars, i, rate, bar_events>>

Next ==
    \/ RunStart
    \/ RunGetBarData
    \/ RunCheck
    \/ RunOnBar
    \/ StrategyOpen
    \/ StrategyClose
    \/ OnBarReturn
    \/ OnBarRaise
    \/ RunMark
    \/ RunEnd

Spec == RunInit /\ [][Next]_vars

\* BacktestEngine.run with a rule-based strategy
RuleNext ==
    \/ RunStart
    \/ RunGetBarData
    \/ RunCheck
    \/ RunOnBar
    \/ RuleOnBar
    \/ RunMark
    \/ RunEnd

RuleSpec == RuleInit /\ [][RuleNext]_vars

UptrendSpec == UptrendInit /\ [][RuleNext]_vars

----------------------------------------------------------------------------
(* ONNXParameterOptimizer.grid_search / random_search                      *)
(* (optimize_onnx_params.py): for every combination a strategy and an      *)
(* engine are constructed and the engine is run, all inside one            *)
(* try/except Exception.  The run is BacktestEngine.run with an arbitrary  *)
(* strategy; the combinations differ by the parameters of the strategy,    *)
(* which the arbitrary strategy covers.  The rows are sorted by            *)
(* total_return, that is by final_balance.                                 *)

\* for ... : the next combination, or the end of the loop: the sorted rows,
\* or ValueError("No successful backtests!")
SweepAdvance(rows) ==
    IF combo < total_combinations
    THEN /\ combo' = combo + 1
         /\ pc' = "combination"
         /\ returned' = returned
    ELSE IF Len(rows) = 0
    THEN /\ pc' = "sweep_ValueError"
         /\ UNCHANGED <<combo, returned>>
    ELSE /\ pc' = "sweep_done"
         /\ returned' \in
               { Some([k \in 1..Len(rows) |-> rows[f[k]]]) :
                   f \in { g \in [1..Len(rows) -> 1..Len(rows)] :
                             /\ \A a, b \in 1..Len(rows) :
                                   a # b => g[a] # g[b]
                             /\ \A a, b \in 1..Len(rows) :
                                   a < b => rows[g[a]].final_balance
                                              >= rows[g[b]].final_balance } }
         /\ UNCHANGED combo

\* strategy = ONNXBacktestStrategy(...): the ledger of a new strategy
Constructed(sym, balance) ==
    /\ symbol' = sym
    /\ initial_balance' = balance
    /\ current_balance' = balance
    /\ equity' = balance
    /\ position' = None
    /\ closed_trades' = <<>>
    /\ max_drawdown' = 0
    /\ peak_equity' = balance
    /\ total_profit' = 0
    /\ total_loss' = 0
    /\ winning_trades' = 0
    /\ losing_trades' = 0

\* the strategy of the combination before is used again
SweepConstruct_reused ==
    /\ mode = "sweep" /\ pc = "combination"
    /\ tested' = Append(tested, combo)
    /\ \/ /\ SweepAdvance(results)
          /\ UNCHANGED <<ledger, last, calls, nbars, i, rate, bar_events,
                         report, results>>
       \/ /\ UNCHANGED ledger
          /\ op' = "__init__"
          /\ ret' = "None"
          /\ levels_hit' = "none"
          /\ calls' = 0
          /\ pc' = "start"
          /\ nbars' = 0
          /\ i' = 0
          /\ rate' = 0
          /\ bar_events' = <<>>
          /\ report' = None
          /\ UNCHANGED <<combo, results, returned>>
    /\ UNCHANGED <<dashboard, pm_signal, rules, total_combinations, indicator, onnx, pmengine,
                   polymarket, mode>>

\* try: strategy = ONNXBacktestStrategy(...); engine = BacktestEngine(...):
\* either constructor raises and the combination is skipped, or the run
\* starts on a new strategy
SweepConstruct ==
    /\ mode = "sweep" /\ pc = "combination"
    /\ tested' = Append(tested, combo)
    /\ \/ /\ SweepAdvance(results)
          /\ UNCHANGED <<ledger, last, calls, nbars, i, rate, bar_events,
                         report, results>>
       \/ /\ Constructed(symbol, initial_balance)
          /\ op' = "__init__"
          /\ ret' = "None"
          /\ levels_hit' = "none"
          /\ calls' = 0
          /\ pc' = "start"
          /\ nbars' = 0
          /\ i' = 0
          /\ rate' = 0
          /\ bar_events' = <<>>
          /\ report' = None
          /\ UNCHANGED <<combo, results, returned>>
    /\ UNCHANGED <<dashboard, pm_signal, rules, total_combinations, indicator, onnx, pmengine,
                   polymarket, mode>>

\* engine.run() raised: except Exception ... continue
SweepSkip ==
    /\ mode = "sweep" /\ pc = "ValueError"
    /\ SweepAdvance(results)
    /\ UNCHANGED <<dashboard, pm_signal, rules, total_combinations, results, tested, indicator,
                   onnx, pmengine, polymarket, mode, ledger, last, calls,
                   nbars, i, rate, bar_events, report>>

\* engine.run() returned: results.append(result)
SweepCollect ==
    /\ mode = "sweep" /\ pc = "done"
    /\ results' = Append(results,
                         [combination |-> combo,
                          final_balance |-> report.metrics.final_balance,
                          total_trades |-> report.metrics.total_trades])
    /\ SweepAdvance(results')
    /\ UNCHANGED <<dashboard, pm_signal, rules, total_combinations, tested, indicator, onnx,
                   pmengine, polymarket, mode, ledger, last, calls, nbars,
                   i, rate, bar_events, report>>

SweepInit ==
    /\ mode = "sweep"
    /\ NewLedger(EURUSD, 10000)
    /\ NewPolymarket(0)
    /\ op = "__init__"
    /\ levels_hit = "none"
    /\ ret = "None"
    /\ calls = 0
    /\ pc = "combination"
    /\ nbars = 0
    /\ i = 0
    /\ rate = 0
    /\ bar_events = <<>>
    /\ report = None
    /\ NoIndicator
    /\ NoONNX
    /\ NoRules
    /\ NoDashboard
    /\ pm_signal = None
    /\ PMEngineIdle
    /\ total_combinations \in 1..MaxCombinations
    /\ combo = 1
    /\ results = <<>>
    /\ tested = <<>>
    /\ returned = None

SweepNext ==
    \/ SweepConstruct
    \/ RunStart
    \/ RunGetBarData
    \/ RunCheck
    \/ RunOnBar
    \/ StrategyOpen
    \/ StrategyClose
    \/ OnBarReturn
    \/ OnBarRaise
    \/ RunMark
    \/ RunEnd
    \/ SweepSkip
    \/ SweepCollect

SweepSpec == SweepInit /\ [][SweepNext]_vars

-----------------------------------------------------------------------------
(* The dashboard's POST /backtest/run (polymarket/gui/api/backtest.py and  *)
(* polymarket/gui/simple_app.py, the same handler in both).  Every request *)
(* is served by run_backtest; an accepted request starts a daemon thread   *)
(* that runs run_backtest_thread.  The handler reads backtest_running, the *)
(* thread writes it; nothing else synchronises them.                       *)

MaxRequests == 3

Requests == 1..MaxRequests

\* what the dashboard's endpoint leaves alone
idle == <<mode, ledger, last, calls, engine, polymarket, pmengine, indicator,
          onnx, rules, sweep, pm_signal>>

\* run_backtest, up to `if backtest_running: return ..., 400`
RunBacktestCheck(r) ==
    /\ mode = "dash"
    /\ handler[r] = "arriving"
    /\ handler' = [handler EXCEPT ![r] = IF backtest_running THEN "400"
                                                               ELSE "parsing"]
    /\ UNCHANGED <<backtest_running, thread, idle>>

\* run_backtest, the `try`: the body of the request is parsed, the thread
\* is created and started and 'started' is returned; when float() or
\* strptime() raises, the answer is 500 and no thread is started
RunBacktestStart(r) ==
    /\ mode = "dash"
    /\ handler[r] = "parsing"
    /\ \/ /\ handler' = [handler EXCEPT ![r] = "200"]
          /\ thread' = [thread EXCEPT ![r] = "started"]
       \/ /\ handler' = [handler EXCEPT ![r] = "500"]
          /\ UNCHANGED thread
    /\ UNCHANGED <<backtest_running, idle>>

\* run_backtest_thread, its first statement: backtest_running = True
ThreadSetsRunning(r) ==
    /\ mode = "dash"
    /\ thread[r] = "started"
    /\ backtest_running' = TRUE
    /\ thread' = [thread EXCEPT ![r] = "running"]
    /\ UNCHANGED <<handler, idle>>

\* run_backtest_thread, the rest: the backtest emits backtest_complete,
\* or raises and backtest_error is emitted; `finally` resets the flag
ThreadEnds(r) ==
    /\ mode = "dash"
    /\ thread[r] = "running"
    /\ backtest_running' = FALSE
    /\ \E outcome \in {"backtest_complete", "backtest_error"} :
           thread' = [thread EXCEPT ![r] = outcome]
    /\ UNCHANGED <<handler, idle>>

DashInit ==
    /\ mode = "dash"
    /\ NewLedger(EURUSD, 10000)
    /\ NewPolymarket(0)
    /\ op = "__init__"
    /\ levels_hit = "none"
    /\ ret = "None"
    /\ calls = 0
    /\ pc = "idle"
    /\ nbars = 0
    /\ i = 0
    /\ rate = 0
    /\ bar_events = <<>>
    /\ report = None
    /\ NoIndicator
    /\ NoONNX
    /\ NoRules
    /\ NoSweep
    /\ pm_signal = None
    /\ PMEngineIdle
    /\ backtest_running = FALSE
    /\ handler = [r \in Requests |-> "arriving"]
    /\ thread = [r \in Requests |-> "none"]

DashNext ==
    \E r \in Requests :
        \/ RunBacktestCheck(r)
        \/ RunBacktestStart(r)
        \/ ThreadSetsRunning(r)
        \/ ThreadEnds(r)

DashSpec == DashInit /\ [][DashNext]_vars

----------------------------------------------------------------------------
(* A caller of the Polymarket ledger that trades, reprices and marks in    *)
(* any order                                                               *)

PMInit ==
    /\ mode = "pm"
    /\ NewLedger(EURUSD, 10000)
    /\ \E b \in PMBalances : NewPolymarket(b)
    /\ op = "__init__"
    /\ levels_hit = "none"
    /\ ret = "None"
    /\ calls = 0
    /\ pc = "idle"
    /\ nbars = 0
    /\ i = 0
    /\ rate = 0
    /\ bar_events = <<>>
    /\ report = None
    /\ NoIndicator
    /\ NoONNX
    /\ NoExtra
    /\ PMEngineIdle

PMExecuteSignal ==
    /\ mode = "pm"
    /\ calls < MaxPMCalls
    /\ calls' = calls + 1
    /\ op' = "execute_signal"
    /\ levels_hit' = "none"
    /\ \E a \in {"BUY", "SELL"}, t \in PMTokens, z \in SignalSizes,
          p \in PMPrices :
          execute_signal(a, t, z, p)
    /\ ret' = IF pm_trades' = pm_trades THEN "None" ELSE "trade"
    /\ UNCHANGED <<extra, indicator, onnx, pmengine, mode, ledger, engine>>

PMUpdatePosition ==
    /\ mode = "pm"
    /\ calls < MaxPMCalls
    /\ calls' = calls + 1
    /\ op' = "update_position"
    /\ levels_hit' = "none"
    /\ ret' = "None"
    /\ \E t \in PMTokens, p \in PMPrices : update_position(t, p)
    /\ UNCHANGED <<extra, indicator, onnx, pmengine, mode, ledger, engine>>

PMUpdateDrawdown ==
    /\ mode = "pm"
    /\ calls < MaxPMCalls
    /\ calls' = calls + 1
    /\ op' = "update_drawdown"
    /\ levels_hit' = "none"
    /\ ret' = "None"
    /\ update_drawdown
    /\ UNCHANGED <<extra, indicator, onnx, pmengine, mode, ledger, engine>>

PMNext == PMExecuteSignal \/ PMUpdatePosition \/ PMUpdateDrawdown

\* closes of the MT5 ledger or marks of the Polymarket ledger
DrawdownInit == LedgerInit \/ PMInit

DrawdownNext == LedgerNext \/ PMNext

DrawdownSpec == DrawdownInit /\ [][DrawdownNext]_vars

----------------------------------------------------------------------------
(* A caller that only sends signals to the Polymarket engine: any sequence *)
(* of execute_signal calls on a ledger constructed with a positive balance *)

\* initial balances: 1.0 and 1000.0
PositiveBalances == {1, 1000}

\* MarketSignal.size: 0.0, 0.5, 1.0 and 2.0
CallSizes == SignalSizes \cup {8}

SignalInit ==
    /\ mode = "signals"
    /\ NewLedger(EURUSD, 10000)
    /\ \E b \in PositiveBalances : NewPolymarket(b)
    /\ op = "__init__"
    /\ levels_hit = "none"
    /\ ret = "None"
    /\ calls = 0
    /\ pc = "idle"
    /\ nbars = 0
    /\ i = 0
    /\ rate = 0
    /\ bar_events = <<>>
    /\ report = None
    /\ NoIndicator
    /\ NoONNX
    /\ NoExtra
    /\ PMEngineIdle

\* one call of execute_signal, with the signal and the market's Yes price
ExecuteSignalCall ==
    /\ mode = "signals"
    /\ calls < MaxPMCalls
    /\ calls' = calls + 1
    /\ op' = "execute_signal"
    /\ levels_hit' = "none"
    /\ \E a \in {"BUY", "SELL"}, t \in PMTokens, z \in CallSizes,
          p \in PMPrices :
          /\ execute_signal(a, t, z, p)
          /\ pm_signal' = [action |-> a, token_id |-> t, size |-> z,
                           price |-> p]
    /\ ret' = IF pm_trades' = pm_trades THEN "None" ELSE "trade"
    /\ UNCHANGED <<rules, sweep, dashboard, indicator, onnx, pmengine, mode,
                   ledger, engine>>

SignalSpec == SignalInit /\ [][ExecuteSignalCall]_vars

----------------------------------------------------------------------------
(* BacktestEngine.run (polymarket/backtesting/engine.py) with an arbitrary *)
(* strategy.  A market snapshot is its Yes price: run reads nothing else   *)
(* of it, and the price stays the same on every day.  The returned         *)
(* dictionary is modelled by the fields computed from the ledger; the      *)
(* Sharpe ratio and total_return, computed from the engine's own           *)
(* initial_balance and daily returns, are left out.                        *)

MaxMarkets == 2
MaxDays == 3

\* min_confidence, in tenths
min_confidence == 6

Confidences == {5, 6}

\* prices drawn by max(0.01, min(0.99, current_price + price_change))
RepricePrices == {1, 50, 99}

RECURSIVE SeqsUpTo(_, _)
\* the sequences over S of length at most n
SeqsUpTo(S, n) ==
    IF n = 0 THEN {<<>>}
    ELSE LET shorter == SeqsUpTo(S, n - 1)
         IN  shorter \cup {Append(q, x) : q \in shorter, x \in S}

MarketLists == SeqsUpTo(PMPrices, MaxMarkets)

\* 1e-10 of `abs(self.strategy.total_loss) > 1e-10`, in 1e-12 USDC
ProfitFactorEpsilon == 100

Inf == [inf |-> TRUE]

\* Safe profit factor calculation, before the finiteness clamp
ProfitFactorRaw(profit, loss) ==
    IF Abs(loss) > ProfitFactorEpsilon
    THEN Some(Abs(FlRat(profit * DrawdownScale, loss)))
    ELSE IF Abs(profit) < ProfitFactorEpsilon THEN Some(0) ELSE Inf

\* profit_factor if (np.isfinite(profit_factor) and != float('inf')) else 0.0
ReportProfitFactor(profit, loss) ==
    LET profit_factor == ProfitFactorRaw(profit, loss)
    IN  IF profit_factor # Inf THEN profit_factor.v ELSE 0

PMRunInit ==
    /\ mode = "pmrun"
    /\ NewLedger(EURUSD, 10000)
    /\ \E b \in PMBalances : NewPolymarket(b)
    /\ op = "__init__"
    /\ levels_hit = "none"
    /\ ret = "None"
    /\ calls = 0
    /\ pc = "idle"
    /\ nbars = 0
    /\ i = 0
    /\ rate = 0
    /\ bar_events = <<>>
    /\ report = None
    /\ NoIndicator
    /\ NoONNX
    /\ NoExtra
    /\ pm_pc = "start"
    /\ pm_fetched = FALSE
    /\ pm_markets = <<>>
    /\ pm_market = 0
    /\ pm_days \in 0..MaxDays
    /\ pm_day = 0
    /\ pm_equity_curve = <<>>
    /\ pm_report = None

\* not markets
NoMarkets(markets) == markets = <<>>

\* while current_date <= self.end_date: the next day, or the loop's end
PMNextDay ==
    IF pm_day < pm_days
    THEN /\ pm_pc' = "reprice"
         /\ pm_day' = pm_day + 1
    ELSE /\ pm_pc' = "end"
         /\ UNCHANGED pm_day

\* if markets is None: markets = self.fetch_historical_markets();
\* if not markets: raise ValueError("No markets found for backtesting")
PMRunStart ==
    /\ mode = "pmrun" /\ pm_pc = "start"
    /\ \E given \in {None} \cup {Some(m) : m \in MarketLists},
          fetched \in MarketLists :
          LET markets == IF given = None THEN fetched ELSE given.v
          IN  /\ pm_fetched' = (given = None)
              /\ pm_markets' = markets
              /\ IF NoMarkets(markets)
                 THEN /\ pm_pc' = "ValueError"
                      /\ UNCHANGED pm_day
                 ELSE PMNextDay
    /\ UNCHANGED <<extra, indicator, onnx, mode, ledger, last, calls, engine, polymarket, pm_market,
                   pm_days, pm_equity_curve, pm_report>>

\* Update positions with current prices
PMReprice ==
    /\ mode = "pmrun" /\ pm_pc = "reprice"
    /\ \E new_price \in [PMTokens -> RepricePrices] :
          pm_positions' =
              [t \in PMTokens |->
                  IF pm_positions[t] # None
                  THEN UpdatedPosition(pm_positions[t], new_price[t])
                  ELSE None]
    /\ pm_pc' = "market"
    /\ pm_market' = 1
    /\ UNCHANGED <<extra, indicator, onnx, mode, ledger, last, calls, engine, pm_initial_balance,
                   pm_current_balance, pm_equity, pm_closed_positions,
                   pm_total_trades, pm_winning_trades, pm_losing_trades,
                   pm_total_profit, pm_total_loss, pm_max_drawdown,
                   pm_peak_equity, pm_trades, pm_fetched, pm_markets,
                   pm_days, pm_day, pm_equity_curve, pm_report>>

\* for market_snapshot in markets: the next market, or the loop's end
PMNextMarket ==
    IF pm_market < Len(pm_markets)
    THEN /\ pm_market' = pm_market + 1
         /\ pm_pc' = "market"
    ELSE /\ pm_pc' = "mark"
         /\ UNCHANGED pm_market

\* signal = self.strategy.analyze_market(market_data) returns None
PMNoSignal ==
    /\ mode = "pmrun" /\ pm_pc = "market"
    /\ PMNextMarket
    /\ UNCHANGED <<extra, indicator, onnx, mode, ledger, last, calls, engine, polymarket, pm_fetched,
                   pm_markets, pm_days, pm_day, pm_equity_curve, pm_report>>

\* if signal and signal.confidence >= self.strategy.min_confidence:
\*     self.execute_signal(signal, market_data, current_date)
PMSignal ==
    /\ mode = "pmrun" /\ pm_pc = "market"
    /\ \E a \in {"BUY", "SELL"}, t \in PMTokens, z \in SignalSizes,
          confidence \in Confidences :
          IF confidence >= min_confidence
          THEN execute_signal(a, t, z, pm_markets[pm_market])
          ELSE UNCHANGED polymarket
    /\ PMNextMarket
    /\ UNCHANGED <<extra, indicator, onnx, mode, ledger, last, calls, engine, pm_fetched, pm_markets,
                   pm_days, pm_day, pm_equity_curve, pm_report>>

\* Update equity curve; advance to next day
PMMark ==
    /\ mode = "pmrun" /\ pm_pc = "mark"
    /\ update_drawdown
    /\ pm_equity_curve' =
          Append(pm_equity_curve,
                 [equity |-> calculate_equity,
                  balance |-> pm_current_balance,
                  unrealized_pnl |->
                      PySumFrom(0, PositionValues("unrealized_pnl"))])
    /\ PMNextDay
    /\ UNCHANGED <<extra, indicator, onnx, mode, ledger, last, calls, engine, pm_fetched, pm_markets,
                   pm_market, pm_days, pm_report>>

RECURSIVE CloseAll(_, _)
\* Close all open positions at end: the counters after the loop over `held`
CloseAll(s, held) ==
    IF held = <<>> THEN s
    ELSE LET pos == pm_positions[Head(held)]
             exit_value == FlRat(pos.size * pos.current_price, 100)
             pnl == Fl(exit_value - FlRat(pos.size * pos.entry_price, 100))
             paid == [s EXCEPT !.current_balance = Fl(@ + exit_value),
                               !.total_trades = @ + 1]
         IN  CloseAll(IF pnl > 0
                      THEN [paid EXCEPT !.winning_trades = @ + 1,
                                        !.total_profit = Fl(@ + pnl)]
                      ELSE [paid EXCEPT !.losing_trades = @ + 1,
                                        !.total_loss = Fl(@ + Abs(pnl))],
                      Tail(held))

\* the end of run: final_equity, the closes, the metrics and the results
PMRunEnd ==
    /\ mode = "pmrun" /\ pm_pc = "end"
    /\ LET final_equity == calculate_equity
           closed ==
               CloseAll([current_balance |-> pm_current_balance,
                         total_trades |-> pm_total_trades,
                         winning_trades |-> pm_winning_trades,
                         losing_trades |-> pm_losing_trades,
                         total_profit |-> pm_total_profit,
                         total_loss |-> pm_total_loss],
                        SelectSeq(PMTokenOrder,
                                  LAMBDA t : pm_positions[t] # None))
       IN  /\ pm_current_balance' = closed.current_balance
           /\ pm_total_trades' = closed.total_trades
           /\ pm_winning_trades' = closed.winning_trades
           /\ pm_losing_trades' = closed.losing_trades
           /\ pm_total_profit' = closed.total_profit
           /\ pm_total_loss' = closed.total_loss
           /\ pm_positions' = [t \in PMTokens |-> None]
           /\ pm_report' =
                 [final_balance |-> closed.current_balance,
                  final_equity |-> final_equity,
                  total_trades |-> closed.total_trades,
                  winning_trades |-> closed.winning_trades,
                  losing_trades |-> closed.losing_trades,
                  win_rate |->
                      IF closed.total_trades > 0
                      THEN Fl(FlRat(closed.winning_trades * DrawdownScale,
                                    closed.total_trades) * 100)
                      ELSE 0,
                  total_profit |-> closed.total_profit,
                  total_loss |-> closed.total_loss,
                  profit_factor |->
                      ReportProfitFactor(closed.total_profit,
                                         closed.total_loss),
                  max_drawdown |-> Fl(pm_max_drawdown * 100),
                  trades |-> pm_trades,
                  equity_curve |-> pm_equity_curve]
    /\ pm_pc' = "done"
    /\ UNCHANGED <<extra, indicator, onnx, mode, ledger, last, calls, engine, pm_initial_balance,
                   pm_equity, pm_closed_positions, pm_max_drawdown,
                   pm_peak_equity, pm_trades, pm_fetched, pm_markets,
                   pm_market, pm_days, pm_day, pm_equity_curve>>

PMRunNext ==
    \/ PMRunStart
    \/ PMReprice
    \/ PMNoSignal
    \/ PMSignal
    \/ PMMark
    \/ PMRunEnd

PMRunSpec == PMRunInit /\ [][PMRunNext]_vars

\* a run of the MT5 engine or a run of the Polymarket engine
ReportInit == RunInit \/ PMRunInit

ReportNext == Next \/ PMRunNext

ReportSpec == ReportInit /\ [][ReportNext]_vars

----------------------------------------------------------------------------
(* BacktestEngine.get_indicator_value (MT5).  A series is the sequence of  *)
(* its (time, value) entries in index order; the index is the time column  *)
(* of the fetched bars, which come in increasing time.  A value is NaN or  *)
(* a float.                                                                *)

MaxTime == 3

NaN == [nan |-> TRUE]

IndicatorValues == {NaN, Some(1), Some(2)}

IndexTimes == 1..MaxTime

\* the series over the index `times`, in increasing time
SeriesOver(times) ==
    LET n == Cardinality(times)
        index == CHOOSE f \in [1..n -> times] :
                     \A j, k \in 1..n : j < k => f[j] < f[k]
    IN  { [k \in 1..n |-> [time |-> index[k], value |-> values[k]]] :
            values \in [1..n -> IndicatorValues] }

AllSeries == UNION { SeriesOver(times) : times \in SUBSET IndexTimes }

\* series.index[series.index <= time]
IndexUpTo(series, time) ==
    LET upto == SelectSeq(series, LAMBDA e : e.time <= time)
    IN  [k \in 1..Len(upto) |-> upto[k].time]

\* time in series.index
InIndex(series, time) == \E k \in 1..Len(series) : series[k].time = time

\* series.loc[time]
Loc(series, time) ==
    series[CHOOSE k \in 1..Len(series) : series[k].time = time].value

\* float(value) if not pd.isna(value) else None
FloatOrNone(value) == IF value # NaN THEN value ELSE None

\* get_indicator_value closing in on the index from after `time`
get_indicator_value_next(data, time) ==
    IF data = None THEN None
    ELSE LET series == data.v IN
    IF InIndex(series, time) THEN FloatOrNone(Loc(series, time))
    ELSE LET later == SelectSeq(series, LAMBDA e : e.time >= time)
             closest_time == IF Len(later) > 0
                             THEN Some(later[1].time) ELSE None
         IN  IF closest_time # None
             THEN FloatOrNone(Loc(series, closest_time.v))
             ELSE None

\* get_indicator_value, with indicator_data.get(name) for `data`
get_indicator_value(data, time) ==
    IF data = None THEN None
    ELSE LET series == data.v IN
    IF InIndex(series, time) THEN FloatOrNone(Loc(series, time))
    ELSE LET earlier == IndexUpTo(series, time)
             closest_time == IF Len(earlier) > 0
                             THEN Some(earlier[Len(earlier)]) ELSE None
         IN  IF closest_time # None
             THEN FloatOrNone(Loc(series, closest_time.v))
             ELSE None

IndicatorInit ==
    /\ mode = "indicator"
    /\ NewLedger(EURUSD, 10000)
    /\ NewPolymarket(0)
    /\ op = "__init__"
    /\ levels_hit = "none"
    /\ ret = "None"
    /\ calls = 0
    /\ pc = "idle"
    /\ nbars = 0
    /\ i = 0
    /\ rate = 0
    /\ bar_events = <<>>
    /\ report = None
    /\ NoONNX
    /\ NoExtra
    /\ PMEngineIdle
    /\ indicator_series \in {None} \cup {Some(series) : series \in AllSeries}
    /\ query_time \in 0..(MaxTime + 1)
    /\ indicator_value = Unset

\* value = self.get_indicator_value(indicator_name, bar_data['time'])
GetIndicatorValue ==
    /\ mode = "indicator"
    /\ indicator_value = Unset
    /\ indicator_value' = get_indicator_value(indicator_series, query_time)
    /\ UNCHANGED <<extra, mode, ledger, last, calls, engine, polymarket, pmengine,
                   onnx, indicator_series, query_time>>

IndicatorSpec == IndicatorInit /\ [][GetIndicatorValue]_vars

----------------------------------------------------------------------------
(* ONNXBacktestStrategy (MT5/onnx_backtest_strategy.py): on_bar called bar *)
(* after bar.  A bar of the buffer is its arrival number, and what         *)
(* predict_price makes of the buffer is an input.  Predictions and         *)
(* thresholds are counted in 1e-4, confidences in 0.01.                    *)

MaxONNXBars == 55
MaxONNXTrades == 1

\* lookback = int(input_shape[1]) of the loaded model
Lookbacks == {1, 3}

\* bars kept beyond lookback: `self.lookback + 50`
ExtraBars == 50

\* constructor arguments of the strategy under test
stop_loss_pips == 1
take_profit_pips == 1

\* 1.0 as a prediction
One == 10000

\* (prediction_threshold, min_confidence): the defaults (0.0001, 0.0), and
\* (0.005, 0.6)
Thresholds == { <<1, 0>>, <<50, 60>> }

\* what predict_price returns: None, or the float the model put out
Predictions ==
    {None, NaN} \cup {Some(c) : c \in {-One, -60, -55, 0, 50, 55, 60, One}}

\* price_change_pct: the prediction itself, or the change to a predicted
\* absolute price; None when on_bar returns at `Invalid prediction`.  A NaN
\* fails every comparison and is carried through
PriceChangePct(predicted_change_pct, current_price) ==
    IF predicted_change_pct = NaN THEN NaN
    ELSE IF Abs(predicted_change_pct.v) < One THEN predicted_change_pct
    ELSE IF predicted_change_pct.v <= 0
            \/ predicted_change_pct.v > 10000 * One
         THEN None
    ELSE IF current_price > 0
         THEN Some(FlRat(Fl(predicted_change_pct.v - current_price) * One,
                         current_price))
         ELSE Some(0)

\* Calculate confidence (simple heuristic)
Confidence(c) == IF Abs(c) < One THEN Min(Abs(c), 100) ELSE 100

\* the decision without the test of the confidence
Decision_no_confidence(c) ==
    IF c = None \/ c = NaN THEN "none"
    ELSE IF Abs(c.v) < prediction_threshold THEN "none"
    ELSE IF c.v > prediction_threshold THEN "BUY"
    ELSE IF c.v < -prediction_threshold THEN "SELL"
    ELSE "none"

\* Check if we should trade; Open position based on prediction
Decision(c) ==
    IF c = None \/ c = NaN THEN "none"
    ELSE IF Confidence(c.v) < onnx_min_confidence THEN "none"
    ELSE IF Abs(c.v) < prediction_threshold THEN "none"
    ELSE IF c.v > prediction_threshold THEN "BUY"
    ELSE IF c.v < -prediction_threshold THEN "SELL"
    ELSE "none"

\* xs[-n:] for n > 0
LastOf(xs, n) ==
    IF n >= Len(xs) THEN xs ELSE SubSeq(xs, Len(xs) - n + 1, Len(xs))

\* the buffer cut down to the most recent 50 bars
Kept_fifty(bars) ==
    IF Len(bars) > lookback + ExtraBars
    THEN LastOf(bars, ExtraBars)
    ELSE bars

\* Keep only necessary history
Kept(bars) ==
    IF Len(bars) > lookback + ExtraBars
    THEN LastOf(bars, lookback + ExtraBars)
    ELSE bars

ONNXInit ==
    /\ mode = "onnx"
    /\ NewLedger(EURUSD, 10000)
    /\ NewPolymarket(0)
    /\ op = "__init__"
    /\ levels_hit = "none"
    /\ ret = "None"
    /\ calls = 0
    /\ pc = "idle"
    /\ nbars = 0
    /\ i = 0
    /\ rate = 0
    /\ bar_events = <<>>
    /\ report = None
    /\ NoIndicator
    /\ NoExtra
    /\ PMEngineIdle
    /\ historical_bars = <<>>
    /\ lookback \in Lookbacks
    /\ bars_delivered = 0
    /\ predicted = FALSE
    /\ price_change_pct = Unset
    /\ \E t \in Thresholds :
          /\ prediction_threshold = t[1]
          /\ onnx_min_confidence = t[2]

\* Open position based on prediction
ONNXOpen(order_type, current_price) ==
    IF order_type = "BUY"
    THEN open_position("BUY", lot_size, current_price,
                       IF stop_loss_pips > 0
                       THEN Some(Fl(current_price - stop_loss_pips))
                       ELSE None,
                       IF take_profit_pips > 0
                       THEN Some(Fl(current_price + take_profit_pips))
                       ELSE None)
    ELSE open_position("SELL", lot_size, current_price,
                       IF stop_loss_pips > 0
                       THEN Some(Fl(current_price + stop_loss_pips))
                       ELSE None,
                       IF take_profit_pips > 0
                       THEN Some(Fl(current_price - take_profit_pips))
                       ELSE None)

\* ONNXBacktestStrategy.on_bar.  Once MaxONNXTrades trades are closed the
\* model predicts nothing any more
ONNXOnBar ==
    /\ mode = "onnx"
    /\ bars_delivered < MaxONNXBars
    /\ bars_delivered' = bars_delivered + 1
    /\ historical_bars' = Kept(Append(historical_bars, bars_delivered + 1))
    /\ \E current_price \in Prices,
          predicted_change_pct \in
              IF Len(closed_trades) >= MaxONNXTrades
              THEN {None} ELSE Predictions :
          IF Len(historical_bars') < lookback
          THEN /\ predicted' = FALSE
               /\ price_change_pct' = Unset
               /\ UNCHANGED <<ledger, last, calls>>
          ELSE IF position # None
          THEN /\ check_stop_loss_take_profit(current_price)
               /\ calls' = calls + 1
               /\ predicted' = FALSE
               /\ price_change_pct' = Unset
          ELSE /\ predicted' = TRUE
               /\ IF predicted_change_pct = None
                  THEN /\ price_change_pct' = Unset
                       /\ UNCHANGED <<ledger, last, calls>>
                  ELSE LET c == PriceChangePct(predicted_change_pct,
                                               current_price)
                       IN  /\ price_change_pct' = c
                           /\ IF Decision(c) = "none"
                              THEN UNCHANGED <<ledger, last, calls>>
                              ELSE /\ ONNXOpen(Decision(c), current_price)
                                   /\ calls' = calls + 1
    /\ UNCHANGED <<extra, mode, engine, polymarket, pmengine, indicator, lookback,
                   prediction_threshold, onnx_min_confidence>>

ONNXSpec == ONNXInit /\ [][ONNXOnBar]_vars

----------------------------------------------------------------------------
(* Properties *)

\* a step that is a call of `name` made by the ledger's caller or by on_bar
CallerCalled(name) == calls' = calls + 1 /\ op' = name

\* C1: one ledger never holds a second position: a position that is open is
\* never replaced by another one, and open_position called while a position
\* is open returns False and leaves that position as it is.
C1_SinglePosition ==
    [][ /\ (position # None /\ position' # None) => position' = position
        /\ (CallerCalled("open_position") /\ position # None)
              => (ret' = "False" /\ position' = position) ]_vars

C1_Witness == op = "open_position" /\ ret = "False" /\ position # None

Profits == [k \in 1..Len(closed_trades) |-> closed_trades[k].profit]

\* C2: after any sequence of open_position/close_position calls the reported
\* final balance (equity, equal to current_balance) is
\* initial_balance + sum(profit of the closed trades), exactly.
C2_BalanceConservation ==
    /\ equity = current_balance
    /\ current_balance = Fl(initial_balance + PySumFrom(0, Profits))

\* C3: an open_position call on an empty slot that returns False (the margin
\* check failed) changes nothing in the ledger.
C3_MarginRejectionNonMutating ==
    [][ (CallerCalled("open_position") /\ position = None /\ ret' = "False")
           => UNCHANGED ledger ]_vars

C3_Witness == op = "open_position" /\ ret = "False" /\ position = None

\* C4: a step of a run that closes no trade leaves current_balance as it is,
\* and an open_position call that returns True leaves equity as it is.
C4_BalanceChangesOnlyOnClose ==
    [][ /\ (Len(closed_trades') = Len(closed_trades))
              => current_balance' = current_balance
        /\ (CallerCalled("open_position") /\ ret' = "True")
              => equity' = equity ]_vars

\* a bar was marked with a position open, after an open_position that
\* succeeded and before any close
C4_Witness ==
    /\ mode = "run"
    /\ position # None
    /\ bar_events = <<"on_bar", "mark">>
    /\ equity # current_balance

C5_IsMetal(sym) == sym \in {XAUUSD, GOLD}

C5_Clamped(size) == IF size < 1 THEN 1 ELSE IF size > 10 THEN 10 ELSE size

\* clamped_size * contract_size * price * margin_rate, in 1e-6 currency
C5_Margin(sym, size, price) ==
    IF C5_IsMetal(sym)
    THEN Fl(Fl(Fl(C5_Clamped(size) * 1) * price) * 2)
    ELSE Fl(Fl(Fl(C5_Clamped(size) * 1000) * price) * 1)

\* C5: with no position open, open_position(side, size, price) returns True
\* and records a position of the clamped size exactly when
\* clamped_size * contract_size * price * margin_rate <= 0.9 * equity, and
\* returns False otherwise (100 / 0.02 for XAU and GOLD symbols, 100000 / 0.01
\* for the others).
C5_MarginRule ==
    [][ \A t \in OrderTypes, v \in Volumes, p \in MarginPrices,
           l \in LevelPairs :
          (/\ position = None
           /\ CallerCalled("open_position")
           /\ position' # None => position'.sl = l[1] /\ position'.tp = l[2]
           /\ open_position(t, v, p, l[1], l[2]))
             => IF C5_Margin(symbol, v, p) <= Fl(9 * equity) * 10000
                THEN /\ ret' = "True"
                     /\ position' # None
                     /\ position'.type = t
                     /\ position'.volume = C5_Clamped(v)
                     /\ position'.open_price = p
                ELSE /\ ret' = "False"
                     /\ position' = None ]_vars

\* an open whose margin is exactly 0.9 * equity was accepted
C5_Witness ==
    /\ op = "open_position" /\ ret = "True"
    /\ position # None
    /\ C5_Margin(symbol, position.volume, position.open_price)
          = Fl(9 * equity) * 10000

C6_Pnl(pos, exit_price) ==
    IF pos.type = "BUY"
    THEN Fl(Fl(exit_price - pos.open_price) * pos.volume)
    ELSE -Fl(Fl(exit_price - pos.open_price) * pos.volume)

\* C6: close_position(exit_price) with a position open adds
\* pnl = (exit_price - entry_price) * volume * multiplier (sign-flipped for
\* SELL) to current_balance, sets equity to the new balance, appends exactly
\* one trade carrying that pnl and clears the position slot.
C6_ClosePosition ==
    [][ \A p \in Prices :
          (position # None /\ close_position(p))
             => /\ current_balance' = Fl(current_balance + C6_Pnl(position, p))
                /\ equity' = current_balance'
                /\ Len(closed_trades') = Len(closed_trades) + 1
                /\ SubSeq(closed_trades', 1, Len(closed_trades)) = closed_trades
                /\ closed_trades'[Len(closed_trades')].profit
                      = C6_Pnl(position, p)
                /\ closed_trades'[Len(closed_trades')].close_price = p
                /\ position' = None ]_vars

\* a SELL position was closed at a loss
C6_Witness ==
    /\ op = "close_position" /\ ret = "trade"
    /\ closed_trades # <<>>
    /\ closed_trades[Len(closed_trades)].type = "SELL"
    /\ closed_trades[Len(closed_trades)].profit < 0

C7_Wins == Cardinality({k \in 1..Len(closed_trades) : closed_trades[k].profit > 0})

C7_Losses == Cardinality({k \in 1..Len(closed_trades) : closed_trades[k].profit <= 0})

\* C7: winning_trades + losing_trades = len(closed_trades), a trade counting
\* as a win when its profit is > 0 and as a loss otherwise (zero included),
\* and total_profit and total_loss are never negative.
C7_Counters ==
    /\ winning_trades + losing_trades = Len(closed_trades)
    /\ winning_trades = C7_Wins
    /\ losing_trades = C7_Losses
    /\ total_profit >= 0
    /\ total_loss >= 0

\* a zero-profit trade and a winning trade were closed
C7_Witness ==
    /\ \E k \in 1..Len(closed_trades) : closed_trades[k].profit = 0
    /\ \E k \in 1..Len(closed_trades) : closed_trades[k].profit > 0

\* C8: max_drawdown never decreases: not over the closes of the MT5 ledger
\* and not over the update_drawdown marks of the Polymarket ledger.
C8_DrawdownMonotone ==
    [][ /\ max_drawdown' >= max_drawdown
        /\ pm_max_drawdown' >= pm_max_drawdown ]_vars

\* a mark that found a drawdown smaller than the recorded maximum
C8_Witness ==
    /\ mode = "pm"
    /\ op = "update_drawdown"
    /\ pm_peak_equity > 0
    /\ pm_max_drawdown > Drawdown(pm_peak_equity, pm_equity)

\* the trigger condition of check_stop_loss_take_profit; a level counts as
\* set when it is neither None nor 0
C10_Set(level) == level # None /\ level.v # 0

C10_Triggered(pos, price) ==
    IF pos.type = "BUY"
    THEN \/ C10_Set(pos.sl) /\ price <= pos.sl.v
         \/ C10_Set(pos.tp) /\ price >= pos.tp.v
    ELSE \/ C10_Set(pos.sl) /\ price >= pos.sl.v
         \/ C10_Set(pos.tp) /\ price <= pos.tp.v

\* C9: for every bar of a run the stop-loss/take-profit check on an open
\* position comes before on_bar and on_bar before the equity mark; when
\* on_bar is invoked, no position is open whose stop or take-profit is
\* triggered (as check_stop_loss_take_profit triggers it) at the bar's close.
C9_Ordering ==
    /\ bar_events \in { <<>>, <<"check">>, <<"on_bar">>, <<"check", "on_bar">>,
                        <<"on_bar", "mark">>, <<"check", "on_bar", "mark">> }
    /\ (pc = "on_bar" /\ position # None)
          => /\ bar_events = <<"check">>
             /\ ~C10_Triggered(position, rate)

\* on_bar is about to run on a bar whose check closed the open position
C9_Witness ==
    /\ pc = "on_bar"
    /\ bar_events = <<"check">>
    /\ op = "check_stop_loss_take_profit" /\ ret = "True"
    /\ position = None

\* the claim's trigger condition: a level is set when it is not None
C10_TriggeredAsClaimed(pos, price) ==
    IF pos.type = "BUY"
    THEN \/ pos.sl # None /\ price <= pos.sl.v
         \/ pos.tp # None /\ price >= pos.tp.v
    ELSE \/ pos.sl # None /\ price >= pos.sl.v
         \/ pos.tp # None /\ price <= pos.tp.v

\* C10 as claimed: check_stop_loss_take_profit(current_price) closes the
\* position and returns True exactly when a level that is set (not None) is
\* reached; otherwise it returns False and changes nothing.
C10_CheckAsClaimed ==
    [][ \A p \in Prices :
          check_stop_loss_take_profit(p)
             => IF position # None /\ C10_TriggeredAsClaimed(position, p)
                THEN /\ ret' = "True"
                     /\ position' = None
                     /\ Len(closed_trades') = Len(closed_trades) + 1
                ELSE /\ ret' = "False"
                     /\ UNCHANGED ledger ]_vars

\* C10 (amended): the same with a level counting as set when it is neither
\* None nor 0.
C10_Check ==
    [][ \A p \in Prices :
          check_stop_loss_take_profit(p)
             => IF position # None /\ C10_Triggered(position, p)
                THEN /\ ret' = "True"
                     /\ position' = None
                     /\ Len(closed_trades') = Len(closed_trades) + 1
                ELSE /\ ret' = "False"
                     /\ UNCHANGED ledger ]_vars

\* a check closed a SELL position at its stop
C10_Witness ==
    /\ op = "check_stop_loss_take_profit" /\ ret = "True"
    /\ closed_trades # <<>>
    /\ closed_trades[Len(closed_trades)].type = "SELL"
    /\ closed_trades[Len(closed_trades)].profit < 0

\* the stop and the take-profit of pos are both set and both reached at price
C11_BothReached(pos, price) ==
    /\ pos.sl # None /\ pos.tp # None
    /\ pos.sl.v # 0 /\ pos.tp.v # 0
    /\ IF pos.type = "BUY"
       THEN price <= pos.sl.v /\ price >= pos.tp.v
       ELSE price >= pos.sl.v /\ price <= pos.tp.v

\* C11: a check_stop_loss_take_profit call at a price that reaches both the
\* stop and the take-profit of the open position closes it once: exactly one
\* trade is appended, one counter moves by one and the balance is adjusted
\* once by that trade's profit.
C11_SingleClose ==
    [][ \A p \in Prices :
          ( /\ CallerCalled("check_stop_loss_take_profit")
            /\ position # None
            /\ C11_BothReached(position, p)
            /\ check_stop_loss_take_profit(p) )
          => /\ ret' = "True"
             /\ position' = None
             /\ Len(closed_trades') = Len(closed_trades) + 1
             /\ SubSeq(closed_trades', 1, Len(closed_trades)) = closed_trades
             /\ current_balance' =
                   Fl(current_balance
                        + closed_trades'[Len(closed_trades')].profit)
             /\ winning_trades' + losing_trades'
                   = winning_trades + losing_trades + 1 ]_vars

\* a check closed a position whose stop and take-profit were both reached at
\* the price of the close
C11_Witness ==
    /\ op = "check_stop_loss_take_profit" /\ ret = "True"
    /\ levels_hit = "both"
    /\ position = None

\* C12: when check_stop_loss_take_profit closes the position, the trade it
\* records is closed at the position's stop_loss or take_profit level (the
\* one that was reached), not at the current_price passed in.
C12_CloseAtLevel ==
    [][ (CallerCalled("check_stop_loss_take_profit") /\ ret' = "True")
          => LET close_price ==
                     closed_trades'[Len(closed_trades')].close_price
             IN  /\ levels_hit' = "sl" => close_price = position.sl.v
                 /\ levels_hit' = "tp" => close_price = position.tp.v
                 /\ levels_hit' = "both"
                       => close_price \in {position.sl.v, position.tp.v}
       ]_vars

\* C13: the mark step of a bar leaves equity at current_balance plus the
\* unrealized P&L of the open position at that bar's close, computed as
\* close_position computes a P&L, and at current_balance when no position is
\* open.
C13_EquityMarked ==
    [][ (pc = "mark" /\ pc' # "mark")
          => /\ current_balance' = current_balance
             /\ position' = position
             /\ equity' = IF position # None
                          THEN Fl(current_balance + C6_Pnl(position, rate))
                          ELSE current_balance ]_vars

\* a bar was just marked with a SELL position open and a P&L that is not 0
C13_Witness ==
    /\ mode = "run"
    /\ pc \in {"get_bar_data", "end"}
    /\ bar_events # <<>>
    /\ bar_events[Len(bar_events)] = "mark"
    /\ position # None
    /\ position.type = "SELL"
    /\ equity # current_balance

\* C17: the rejections of the ledger are return values: open_position with
\* a position open returns False, open_position never returns True for a
\* margin above 0.9 * equity (it returns False), close_position with no
\* position open returns None, each leaving the whole ledger unchanged, and
\* no call ends in an exception.
C17_RejectionsAreValues ==
    [][ /\ CallerCalled("open_position")
             => /\ ret' \in {"True", "False"}
                /\ position # None => ret' = "False"
                /\ ret' = "False" => UNCHANGED ledger
                /\ ret' = "True"
                      => C5_Margin(symbol, position'.volume,
                                   position'.open_price)
                            <= Fl(9 * equity) * 10000
        /\ CallerCalled("close_position")
             => /\ ret' \in {"None", "trade"}
                /\ position = None => (ret' = "None" /\ UNCHANGED ledger)
        /\ CallerCalled("check_stop_loss_take_profit")
             => ret' \in {"True", "False"} ]_vars

\* close_position was called with no position open, after a trade
C17_Witness ==
    /\ op = "close_position" /\ ret = "None"
    /\ position = None
    /\ closed_trades # <<>>

\* C14: when run returns its report no position is open: a position still
\* open after the last bar is closed at that bar's close, nothing else is
\* closed, and the final_balance of the report is the realized
\* current_balance.
C14_EndsRealized ==
    [][ /\ report' # None
             => /\ pc' = "done"
                /\ position' = None
                /\ report'.metrics.final_balance = current_balance'
                /\ report'.trades = closed_trades'
        /\ (pc = "end" /\ pc' = "done")
             => IF position # None
                THEN /\ Len(closed_trades') = Len(closed_trades) + 1
                     /\ closed_trades'[Len(closed_trades')].close_price
                           = rate
                     /\ closed_trades'[Len(closed_trades')].open_price
                           = position.open_price
                ELSE closed_trades' = closed_trades ]_vars

\* run returned after force-closing the position opened by the only ledger
\* call the strategy made
C14_Witness ==
    /\ pc = "done"
    /\ report # None
    /\ op = "close_position" /\ ret = "trade"
    /\ calls = 1
    /\ Len(closed_trades) = 1

\* on_bar raised on the bar just left: the bar has its on_bar and no mark
C15_Raised ==
    /\ pc \in {"get_bar_data", "end"}
    /\ bar_events # <<>>
    /\ bar_events[Len(bar_events)] = "on_bar"

C15_Returned ==
    /\ pc = "done"
    /\ i = nbars
    /\ position = None
    /\ report # None

\* the position of run inside the body of one iteration
C15_Rank ==
    CASE pc = "get_bar_data" -> 0
      [] pc = "check"        -> 1
      [] pc = "on_bar"       -> 2
      [] pc = "in_on_bar"    -> 3
      [] pc = "mark"         -> 4
      [] OTHER               -> 0

\* an upper bound of the number of steps run has left
C15_StepsLeft ==
    CASE pc = "start" -> (MaxBars * 5 + 5) * (MaxStrategyCalls + 1) + 3
      [] pc = "end"   -> 1
      [] pc \in {"get_bar_data", "check", "on_bar", "in_on_bar", "mark"} ->
             ((nbars - i) * 5 + (4 - C15_Rank)) * (MaxStrategyCalls + 1)
                 + (MaxStrategyCalls - calls) + 2
      [] OTHER        -> 0

\* C15: when on_bar raises on a bar, run does not abort: it goes on with the
\* next bar (or with the end of the run after the last bar) without touching
\* the ledger, the bars are taken one by one in order, every step brings run
\* nearer to its end, the only ends are the return and the no-data error
\* raised before the first bar, and run returns only with every bar
\* iterated, the position closed and a report.
C15_RaiseRecovered ==
    [][ /\ (pc = "in_on_bar" /\ pc' \notin {"in_on_bar", "mark"})
             => /\ UNCHANGED ledger
                /\ IF i < nbars
                   THEN i' = i + 1 /\ pc' = "get_bar_data"
                   ELSE i' = i /\ pc' = "end"
        /\ i' \in {i, i + 1}
        /\ C15_StepsLeft' < C15_StepsLeft
        /\ (C15_StepsLeft' = 0)
             => \/ C15_Returned'
                \/ pc = "start" /\ pc' = "ValueError" /\ nbars' = 0 ]_vars

\* on_bar raised on the first of two bars after the strategy had opened a
\* position, and run is at the second bar
C15_Witness ==
    /\ C15_Raised
    /\ pc = "get_bar_data"
    /\ nbars = 2 /\ i = 2
    /\ position # None

\* run raised its no-data error: nothing was done with the ledger, the
\* strategy was not called and nothing is returned
C16_NothingDone ==
    /\ pc = "ValueError"
         => /\ nbars = 0 /\ calls = 0 /\ bar_events = <<>>
            /\ op = "__init__"
            /\ position = None /\ closed_trades = <<>>
            /\ current_balance = initial_balance
            /\ equity = initial_balance
            /\ report = None
    /\ pm_pc = "ValueError"
         => /\ pm_markets = <<>> /\ pm_day = 0
            /\ pm_trades = <<>> /\ pm_equity_curve = <<>>
            /\ pm_positions = [t \in PMTokens |-> None]
            /\ pm_current_balance = pm_initial_balance
            /\ pm_total_trades = 0
            /\ pm_report = None

\* C16: when the bar source gives no bars (None or an empty sequence), the
\* MT5 run raises its no-data error as its first step, with the ledger
\* untouched and the strategy not called, and the error ends the run; a
\* report is only ever returned by a run that was given bars.  The same
\* holds of the Polymarket run when there are no markets, passed or fetched.
C16_NoDataRaises ==
    /\ [](/\ C16_NothingDone
          /\ report # None => nbars > 0
          /\ pm_report # None => pm_markets # <<>>)
    /\ [][ /\ pc # "ValueError" /\ pm_pc # "ValueError"
           /\ (pc = "start" /\ pc' # "start")
                => /\ (nbars' = 0) <=> (pc' = "ValueError")
                   /\ (nbars' > 0) <=> (pc' = "get_bar_data")
                   /\ UNCHANGED <<ledger, last, calls, report>>
           /\ (pm_pc = "start" /\ pm_pc' # "start")
                => /\ (pm_markets' = <<>>) <=> (pm_pc' = "ValueError")
                   /\ UNCHANGED <<polymarket, pm_report>> ]_vars

\* the Polymarket run was given no market list, fetched an empty one and
\* raised
C16_Witness ==
    /\ pm_pc = "ValueError"
    /\ pm_fetched
    /\ pm_markets = <<>>
    /\ pm_report = None

\* total_profit / total_loss, in 1/DrawdownScale
C18_Ratio(profit, loss) == FlRat(profit * DrawdownScale, loss)

\* the MT5 report carries the ledger's totals and 0 or their ratio
C18_MT5Report ==
    report # None
      => /\ report.metrics.total_profit = total_profit
         /\ report.metrics.total_loss = total_loss
         /\ report.metrics.profit_factor \in Nat
         /\ report.metrics.profit_factor =
               IF total_loss = 0 THEN 0
               ELSE C18_Ratio(total_profit, total_loss)

\* the Polymarket report carries the ledger's totals
C18_PMTotals ==
    /\ pm_report.total_profit = pm_total_profit
    /\ pm_report.total_loss = pm_total_loss
    /\ pm_report.profit_factor \in Nat

C19_AsOf == { k \in 1..Len(indicator_series.v) :
                indicator_series.v[k].time <= query_time }

\* the entry at the greatest index time at or before the time asked for
C19_Latest ==
    CHOOSE k \in C19_AsOf :
        \A j \in C19_AsOf : indicator_series.v[j].time
                              <= indicator_series.v[k].time

C20_Warmup(bars) == Len(bars) < lookback

\* the most recent n arrivals, in arrival order
C20_MostRecent(n) == [k \in 1..n |-> bars_delivered - n + k]

\* C20: while its buffer holds fewer than `lookback` bars the ONNX strategy
\* is in WARMUP: on_bar makes no prediction and no ledger call.  Once the
\* buffer holds `lookback` bars the strategy is ACTIVE and no later on_bar
\* brings it back to WARMUP: an ACTIVE on_bar predicts when no position is
\* open and checks the stop-loss/take-profit levels when one is.  The buffer
\* always holds the most recent bars, at most lookback + 50 of them, in
\* arrival order.
C20_WarmupThenActive ==
    /\ [](historical_bars =
             C20_MostRecent(Min(bars_delivered, lookback + ExtraBars)))
    /\ [][ /\ C20_Warmup(historical_bars')
                => /\ ~predicted'
                   /\ UNCHANGED <<ledger, last, calls>>
           /\ ~C20_Warmup(historical_bars) => ~C20_Warmup(historical_bars')
           /\ ~C20_Warmup(historical_bars')
                => IF position = None
                   THEN predicted' /\ calls' \in {calls, calls + 1}
                   ELSE /\ ~predicted'
                        /\ calls' = calls + 1
                        /\ op' = "check_stop_loss_take_profit" ]_vars

\* the ACTIVE strategy with a lookback of 3, after bars were evicted from
\* the buffer, with a position open
C20_Witness ==
    /\ mode = "onnx"
    /\ lookback = 3
    /\ bars_delivered > lookback + ExtraBars + 1
    /\ Len(historical_bars) = lookback + ExtraBars
    /\ historical_bars[1] = bars_delivered - (lookback + ExtraBars) + 1
    /\ position # None
    /\ calls > 1

\* on_bar asked the ledger for a position of the given side
C21_Requested(side) ==
    /\ calls' = calls + 1
    /\ op' = "open_position"
    /\ ret' = "True"
    /\ position' # None
    /\ position'.type = side

\* the confidence of a predicted change c, in 0.01: min(|c| / 0.01, 1.0)
\* for |c| < 1, and 1.0 from there on
C21_Confidence(c) == IF Abs(c) < One THEN Min(Abs(c), 100) ELSE 100

\* C21: with no position open and a predicted change c, on_bar requests a
\* BUY iff c > prediction_threshold and confidence >= min_confidence, a SELL
\* iff c < -prediction_threshold and confidence >= min_confidence, and
\* nothing otherwise (nor when there is no prediction, or none that is a
\* number), where confidence = min(|c| / 0.01, 1.0) for |c| < 1.
C21_DualGate ==
    [][ predicted'
          => IF price_change_pct' \in {Unset, None, NaN}
             THEN UNCHANGED <<ledger, last, calls>>
             ELSE LET c == price_change_pct'.v
                      confident ==
                          C21_Confidence(c) >= onnx_min_confidence
                  IN  /\ C21_Requested("BUY")
                         <=> (c > prediction_threshold /\ confident)
                      /\ C21_Requested("SELL")
                         <=> (c < -prediction_threshold /\ confident)
                      /\ (C21_Requested("BUY") \/ C21_Requested("SELL")
                          \/ UNCHANGED <<ledger, last, calls>>) ]_vars

\* a predicted change of 0.0055 over the threshold of 0.005, held back by
\* the confidence of 0.55 under a min_confidence of 0.6
C21_Witness ==
    /\ predicted
    /\ price_change_pct = Some(55)
    /\ prediction_threshold = 50
    /\ onnx_min_confidence = 60
    /\ position = None
    /\ calls = 0

\* C22 as stated: the run of EMAStrategy(ema_period=20, lot_size=0.1,
\* stop_loss_pips=50, take_profit_pips=100) over the 100-bar uptrend
\* close[i] = 100 + i*0.1 ends with exactly one trade, a BUY, and with
\* final_balance > initial_balance, on whatever account it is run.
C22_Outcome ==
    /\ Len(closed_trades) = 1
    /\ closed_trades[1].type = "BUY"
    /\ position = None
    /\ report.metrics.final_balance > report.metrics.initial_balance

C22_OneProfitableBuy == pc = "done" => C22_Outcome

\* the equity of the new account covers the margin of 0.1 lot at 100.1, the
\* close of the first bar above its EMA
C22_MarginCovered ==
    ~MarginExceeded(symbol, lot_size, UptrendCloses[2], initial_balance)

\* a close made by the stop/take-profit check of run on a reached
\* take-profit, or by the forced close at the end of run
C22_ClosedByTakeProfitOrEnd ==
    \/ pc = "check" /\ levels_hit' \in {"tp", "both"}
    \/ pc = "end"

\* the positions opened so far: every one is closed or is the open one
C22_Opened == Len(closed_trades) + (IF position # None THEN 1 ELSE 0)

\* C22 (amended): on an account whose equity covers the margin of the order,
\* the run over the uptrend, every bar carrying the EMA(20) of the closes up
\* to it, makes no SELL and closes no trade but by a take-profit trigger or
\* by the forced close at the end, and ends with exactly one trade, a BUY,
\* and final_balance > initial_balance.
C22_UptrendCovered ==
    /\ [](C22_MarginCovered /\ pc = "done" => C22_Outcome)
    /\ [](C22_MarginCovered => C22_Opened <= 1)
    /\ [][ C22_MarginCovered =>
             /\ position' # None => position'.type = "BUY"
             /\ closed_trades' # closed_trades
                  => C22_ClosedByTakeProfitOrEnd ]_vars

\* the run on a gold account of 10000 has ended, its one BUY closed with a
\* profit of 1000
C22_Witness ==
    /\ mode = "rules" /\ pc = "done"
    /\ rule_bars = UptrendBars
    /\ symbol = XAUUSD
    /\ initial_balance = 100000
    /\ Len(closed_trades) = 1
    /\ closed_trades[1].type = "BUY"
    /\ closed_trades[1].open_price = UptrendCloses[2]
    /\ closed_trades[1].close_price = UptrendCloses[3]
    /\ current_balance = 110000

\* the positions after the repricing step when it draws new_price
C23_Repriced(new_price) ==
    [t \in PMTokens |->
        IF pm_positions[t] # None
        THEN UpdatedPosition(pm_positions[t], new_price[t])
        ELSE None]

\* C23: run is deterministic: two runs over the same data with identically
\* configured strategies give the same metrics and the same trades.  For the
\* daily repricing step of the Polymarket run this says that the positions
\* it leaves, from which equity, drawdown and the profit of the closes at the
\* end are computed, are the same whatever number the step draws.
C23_RepriceDetermined ==
    [][ pm_pc = "reprice" /\ pm_pc' = "market"
          => \A new_price \in [PMTokens -> RepricePrices] :
                pm_positions' = C23_Repriced(new_price) ]_vars

\* the bar of the current iteration is not later than the bar before it
C24_OutOfOrder ==
    /\ i >= 2
    /\ rule_bars[i].time <= rule_bars[i - 1].time

\* C24: a bar whose time is not greater than the time of the bar processed
\* before it is rejected or skipped: run makes no stop/take-profit check, no
\* on_bar call and no equity mark for it, so run is never inside or past
\* on_bar with such a bar.
C24_MonotonicReplay ==
    mode = "rules" /\ pc \in {"in_on_bar", "mark"} => ~C24_OutOfOrder

\* what the strategy remembers is what the bar `bar_data` carried
C25_Remembers(bar_data) ==
    IF strategy = "EMAStrategy"
    THEN prev_price = Some(bar_data.close) /\ prev_ema = bar_data.ema
    ELSE prev_rsi = bar_data.rsi

\* C25: between on_bar calls of RSIScalpingStrategy, RSIReversalStrategy and
\* EMAStrategy the remembered previous value (prev_rsi; prev_price and
\* prev_ema) is the indicator value (and close) of the last bar delivered to
\* on_bar with that indicator present, whether or not a position was open
\* and whether or not that bar passed the spread filter; nothing is
\* remembered before the first such bar.
C25_OneBarMemory ==
    mode = "rules" /\ strategy \in RuleStrategies
      => IF delivered = None
         THEN prev_rsi = None /\ prev_price = None /\ prev_ema = None
         ELSE C25_Remembers(delivered.v)

\* C26: when the Polymarket run has returned, no position is open and the
\* reported final_equity, from which total_return is computed, equals the
\* reported final_balance, the balance after the closes at the end of run.
C26_EndsFullyRealized ==
    mode = "pmrun" /\ pm_pc = "done"
      => /\ \A t \in PMTokens : pm_positions[t] = None
         /\ pm_report.final_equity = pm_report.final_balance

\* the ledger of a strategy on which nothing was done yet
C27_FreshLedger ==
    /\ current_balance = initial_balance
    /\ equity = initial_balance
    /\ peak_equity = initial_balance
    /\ position = None
    /\ closed_trades = <<>>
    /\ max_drawdown = 0
    /\ total_profit = 0
    /\ total_loss = 0
    /\ winning_trades = 0
    /\ losing_trades = 0

\* the loop goes on with the combination after `combo`
C27_Continues ==
    combo < total_combinations => combo' = combo + 1 /\ pc' = "combination"

\* seq lists the combinations 1 .. n in order, each once
C27_InOrder(seq, n) == Len(seq) = n /\ \A k \in 1..n : seq[k] = k

\* C27: in a parameter sweep a combination whose construction or backtest
\* raises is skipped and the loop goes on with the next one; the run of every
\* combination starts on a freshly constructed ledger; a row is added to the
\* results exactly when a backtest returned, for the combination it was run
\* for; when the sweep ends every combination was reached once, it returns
\* the rows (each once) when there is one, and raises ValueError only when
\* there is none.
C27_SkipAndContinue ==
    /\ [](mode = "sweep" /\ pc = "start" => C27_FreshLedger /\ calls = 0)
    /\ [](mode = "sweep" /\ pc \in {"sweep_done", "sweep_ValueError"}
            => /\ C27_InOrder(tested, total_combinations)
               /\ pc = "sweep_ValueError" <=> results = <<>>
               /\ pc = "sweep_done"
                    => /\ Len(returned.v) = Len(results)
                       /\ \A k \in 1..Len(results) :
                             \E j \in 1..Len(results) :
                                returned.v[j] = results[k])
    /\ [][ mode = "sweep" =>
             /\ (pc = "ValueError" \/ (pc = "combination" /\ pc' # "start"))
                  => results' = results /\ C27_Continues
             /\ pc = "done"
                  => /\ Len(results') = Len(results) + 1
                     /\ results'[Len(results')].combination = combo
                     /\ SubSeq(results', 1, Len(results)) = results
                     /\ C27_Continues
             /\ pc # "done" => results' = results ]_vars

\* a sweep of two combinations has returned one row: the backtest of the
\* first raised, the second returned after a losing trade
C27_Witness ==
    /\ mode = "sweep" /\ pc = "sweep_done"
    /\ total_combinations = 2
    /\ tested = <<1, 2>>
    /\ Len(results) = 1
    /\ results[1].combination = 2
    /\ results[1].total_trades = 1
    /\ results[1].final_balance < initial_balance
    /\ returned = Some(results)

\* C28: in every state of an MT5 backtest run, the bars on which on_bar
\* raised and the equity mark was skipped included, equity equals
\* current_balance whenever no position is open; so the equity that
\* open_position tests the margin against is the realized balance.
C28_FlatLedgerEquity ==
    mode = "run" /\ position = None => equity = current_balance

\* on_bar closed a position at a profit or loss and then raised: run went
\* on without the equity mark of that bar
C28_Witness ==
    /\ mode = "run" /\ pc \in {"get_bar_data", "end"}
    /\ bar_events # <<>>
    /\ bar_events[Len(bar_events)] = "on_bar"
    /\ op = "close_position"
    /\ position = None
    /\ closed_trades # <<>>
    /\ current_balance # initial_balance
    /\ equity = current_balance

\* the requests that were answered 'started' and whose thread has not ended
C29_Unfinished ==
    {q \in Requests : handler[q] = "200" /\ thread[q] \in {"started", "running"}}

\* C29: at most one backtest thread runs at a time; a request that arrives
\* after an earlier one was accepted and before that backtest has finished
\* is answered 400 'Backtest already running' and starts no thread; and
\* backtest_running is False when a thread has ended.
C29_MutualExclusion ==
    /\ [](mode = "dash"
            => Cardinality({r \in Requests : thread[r] = "running"}) <= 1)
    /\ [][mode = "dash"
            => /\ \A r \in Requests :
                    /\ handler[r] = "arriving"
                    /\ handler'[r] # "arriving"
                    /\ C29_Unfinished # {}
                    => handler'[r] = "400" /\ thread'[r] = "none"
               /\ \A r \in Requests :
                    thread[r] = "running" /\ thread'[r] # "running"
                    => ~backtest_running']_vars

\* the position size execute_signal computes for a BUY of the given size
C30_PositionSize(size) ==
    Min(FlRat(size * pm_current_balance, 4),
        FlRat(pm_current_balance * max_position_size, 10))

\* a BUY that has to be rejected: invalid price, token already held, size
\* above the position limit, or exposure above the exposure limit
C30_Rejected(signal) ==
    \/ signal.price <= 0
    \/ signal.price >= 100
    \/ pm_positions[signal.token_id] # None
    \/ C30_PositionSize(signal.size)
          > FlRat(pm_current_balance * max_position_size, 10)
    \/ Fl(PySumFrom(0, PositionValues("size"))
            + C30_PositionSize(signal.size))
          > FlRat(pm_current_balance * max_total_exposure, 10)

\* C30: after any sequence of execute_signal calls (BUY, full SELL, partial
\* SELL, any token) on a ledger that started with a positive balance,
\* current_balance is never negative; and a BUY that is rejected returns
\* None and leaves current_balance, positions and trades as they were.
C30_CashInvariant ==
    /\ [](mode = "signals" => pm_current_balance >= 0)
    /\ [][mode = "signals" /\ pm_signal'.action = "BUY"
            /\ C30_Rejected(pm_signal')
            => /\ ret' = "None"
               /\ pm_current_balance' = pm_current_balance
               /\ pm_positions' = pm_positions
               /\ pm_trades' = pm_trades]_vars

\* after a BUY and a partial SELL of one token, a BUY of the other token at
\* a valid price was rejected by the exposure limit
C30_Witness ==
    /\ mode = "signals"
    /\ op = "execute_signal"
    /\ ret = "None"
    /\ pm_signal # None
    /\ pm_signal.action = "BUY"
    /\ pm_signal.price > 0 /\ pm_signal.price < 100
    /\ pm_signal.size > 0
    /\ pm_positions[pm_signal.token_id] = None
    /\ C30_Rejected(pm_signal)
    /\ Len(pm_trades) >= 2
    /\ pm_trades[Len(pm_trades)].action = "SELL"
    /\ pm_current_balance > 0
    /\ pm_current_balance < pm_initial_balance

====
